---- MODULE Spec2Model ----
(***************************************************************************)
(* A model of the OpenSeadragonViewer component (src/unnamed/part_001):    *)
(* the synchronisation of the application's viewport state with the        *)
(* OpenSeadragon viewer, the registration of image sources, and the        *)
(* annotation hit test behind clicks and pointer moves.                    *)
(*                                                                         *)
(* The component is single threaded.  Every action below is one callback   *)
(* run to completion; promise reactions (the then-callback of              *)
(* addAllImageSources) are microtasks and run before the next event.       *)
(***************************************************************************)
EXTENDS Integers, Sequences, FiniteSets, TLC

VARIABLES
    pc,          \* "constructed" | "idle" | "finishing" (between the two animation-finish handlers)
    props,       \* this.props: [viewer, world]
    store,       \* the application's viewport state (what updateViewport last wrote, or an application change)
    osdUpdating, \* this.osdUpdating
    vp,          \* the viewer's spring targets: viewport.center/zoomSpring.target.value
    animating,   \* the viewer is between raising animation-start and animation-finish
    needsAnim,   \* the springs were given a new target without "immediately"
    batches,     \* one record per addAllImageSources call, in call order
    adds,        \* [generation, source] -> state of the promise of addTileSource / addNonTiledImage
    worldItems,  \* the viewer's world: the <<generation, source>> items added to it
    last,        \* what the last callback did (observation only)
    pprops,      \* this.props as the pointer handlers read it: [cfg, hoveredAnnotationIds, selectedAnnotationId]
    app,         \* the application's hover and selection state: [hovered, selected]
    ptr,         \* what the last pointer handler did (observation only)
    probe,       \* one call of annotationsAtPoint: [cfg, canvas, point, called, result]
    overlay,     \* the annotation overlay: the props it draws from, this.updateCanvas, what was drawn
    thumb,       \* one call of the thumbnail resolution: its arguments and its result
    tiles,       \* one call of refreshTileProperties: the world's items before and after
    calls,       \* one call of processAnnotations: the canvas and the callbacks it called
    windows      \* the windows state of the application and the last action reduced

viewerVars == <<pc, props, store, osdUpdating, vp, animating, needsAnim,
                batches, adds, worldItems, last>>

pointerVars == <<pprops, app, ptr>>

vars == <<viewerVars, pointerVars, probe, overlay, thumb, tiles, calls, windows>>

----------------------------------------------------------------------------
(* Bounds of the model *)

\* World coordinates are fixed-point: the integer c stands for c / Scale.
Scale == 3
\* Coordinates of the poses are 0, 1 and MaxCoord: 0, a fraction of a world unit
\* that rounds down and one that rounds up.
MaxCoord == 2
\* Zoom levels 1..MaxZoom.
MaxZoom == 2
\* addAllImageSources is called at most MaxBatches times in a run.
MaxBatches == 2
\* The componentDidUpdate calls counted between two redraws of the overlay
MaxChanges == 2

\* The size constraints of a thumbnail are 1..MaxSteps times ConstraintStep.
MaxSteps == 8
ConstraintStep == 25

\* The canvas world knows up to MaxItems content resources.
MaxItems == 4

\* otherContent and annotations of a canvas have up to MaxEntries entries.
MaxEntries == 2

\* At most MaxDispatches actions are dispatched.
MaxDispatches == 2

\* const minDimension = 120: the minimum size of a requested thumbnail
minDimension == 120

----------------------------------------------------------------------------
(* Values *)

Coords == {0, 1, MaxCoord}
Zooms == {1, MaxZoom}

\* props.viewer === null
NoViewer == [set |-> FALSE, x |-> 0, y |-> 0, zoom |-> 0]

Pose(px, py, pz) == [set |-> TRUE, x |-> px, y |-> py, zoom |-> pz]

\* Math.floor of a fixed-point coordinate
MathFloor(c) == (c \div Scale) * Scale

\* A rounding that is not idempotent: the whole number after floor(c / Scale),
\* taken modulo 2
MathRoundOnward(c) == (((c \div Scale) + 1) % 2) * Scale

\* Math.round of a fixed-point coordinate: floor(c / Scale + 1/2), as a fixed-point value
MathRound(c) == ((2 * c + Scale) \div (2 * Scale)) * Scale

\* An info response: id, and json['@id'] ("" when the response has no json yet)
Info(i, j) == [id |-> i, json |-> j]

(* The manifest states the application can hand to the component: the canvas  *)
(* world (canvas ids, layers, the content resources it knows, the centre its  *)
(* worldBounds fit to) and the image sources of its canvases.                 *)
Worlds == <<
    [canvasIds |-> <<>>, layers |-> 0, resources |-> {},
     infoResponses |-> <<>>, nonTiledImages |-> <<>>],
    [canvasIds |-> <<"c1">>, layers |-> 0, resources |-> {"t1"},
     infoResponses |-> <<Info("t1", "t1")>>, nonTiledImages |-> <<>>],
    [canvasIds |-> <<"c1">>, layers |-> 1, resources |-> {"t1"},
     infoResponses |-> <<Info("t1", "t1")>>, nonTiledImages |-> <<>>],
    [canvasIds |-> <<"c1", "c2">>, layers |-> 0, resources |-> {"t1", "t2"},
     infoResponses |-> <<Info("t1", "t1"), Info("t2", "t2")>>, nonTiledImages |-> <<>>],
    [canvasIds |-> <<"c3">>, layers |-> 0, resources |-> {"n1"},
     infoResponses |-> <<>>, nonTiledImages |-> <<"n1">>],
    [canvasIds |-> <<"c4">>, layers |-> 0, resources |-> {},
     infoResponses |-> <<Info("tx", "tx")>>, nonTiledImages |-> <<>>],
    [canvasIds |-> <<"c1", "c4">>, layers |-> 0, resources |-> {"t1", "tx"},
     infoResponses |-> <<Info("t1", "t1"), Info("tx", "tx")>>, nonTiledImages |-> <<>>]
>>

WorldIds == 1..Len(Worlds)

Sources == {"t1", "t2", "tx", "n1"}

\* The pose fitBounds(worldBounds, immediately) leaves the viewer in
HomePose == [x |-> 0, y |-> 0, zoom |-> 1]

Range(s) == {s[i] : i \in 1..Len(s)}

\* What a callback did: the commands it gave the viewer (cmds), the notifications it
\* sent to the application (notes), and for componentDidUpdate whether the viewer was
\* animating when it ran (anim) and whether props.viewer changed (viewerChanged)
NoEvent == [op |-> "none", gen |-> 0, cmds |-> <<>>, notes |-> <<>>,
            anim |-> FALSE, viewerChanged |-> FALSE]

----------------------------------------------------------------------------
(* Pure helpers of the component *)

\* infoResponsesMatch(prevInfoResponses), with cur = this.props.infoResponses
infoResponsesMatch(cur, prev) ==
    IF Len(cur) = 0 /\ Len(prev) = 0 THEN TRUE
    ELSE IF Len(cur) # Len(prev) THEN FALSE
    ELSE \E i \in 1..Len(cur) :
            /\ i <= Len(prev)
            /\ cur[i].json # ""
            /\ cur[i].json = prev[i].json

\* nonTiledImagedMatch(prevNonTiledImages), with cur = this.props.nonTiledImages
nonTiledImagedMatch(cur, prev) ==
    IF Len(cur) = 0 /\ Len(prev) = 0 THEN TRUE
    ELSE \E i \in 1..Len(cur) : i <= Len(prev) /\ cur[i] = prev[i]

\* The promise callbacks of one addAllImageSources call whose then-callback is due
TiledOf(g) == {Worlds[batches[g].world].infoResponses[i].id :
                    i \in 1..Len(Worlds[batches[g].world].infoResponses)}

SimpleOf(g) == Range(Worlds[batches[g].world].nonTiledImages)

\* Promise.all is given the addTileSource promises as its only argument:
\* it is fulfilled once every one of them is fulfilled
PromiseAllFulfilled(g) == \A s \in TiledOf(g) : adds[<<g, s>>] = "resolved"

\* A then-callback of addAllImageSources is queued as a microtask
ThenDue(g) == batches[g].post = "waiting" /\ PromiseAllFulfilled(g)

MicrotaskPending == \E g \in 1..Len(batches) : ThenDue(g)

\* The promises addAllImageSources creates for the sources of world w, as batch g:
\* addTileSource submits to the viewer only when the canvas world knows the content
\* resource (its promise never settles otherwise); addNonTiledImage always submits
NewPromises(a, g, w) ==
    [k \in DOMAIN a |->
        IF k[1] # g THEN a[k]
        ELSE IF \E i \in 1..Len(Worlds[w].infoResponses) : Worlds[w].infoResponses[i].id = k[2]
             THEN (IF k[2] \in Worlds[w].resources THEN "pending" ELSE "never")
        ELSE IF k[2] \in Range(Worlds[w].nonTiledImages) THEN "pending"
        ELSE "none"]

\* error: event => reject(event), rejecting every pending sibling as well
RejectFailFast(a, g, s) ==
    [k \in DOMAIN a |-> IF k[1] = g /\ a[k] = "pending" THEN "rejected" ELSE a[k]]

\* error: event => reject(event)
Reject(a, g, s) == [a EXCEPT ![<<g, s>>] = "rejected"]

\* success: event => resolve(event)
Resolve(a, g, s) == [a EXCEPT ![<<g, s>>] = "resolved"]

\* the guard of the viewport branch of componentDidUpdate, without the flag
ViewportBranchNoFlag(v, flag) == v.set

\* else if (viewer && !this.osdUpdating)
ViewportBranch(v, flag) == v.set /\ ~flag

\* the payload of onViewportChange, with the current props in place of the targets
StalePayload(target) == [set |-> TRUE, x |-> props.viewer.x, y |-> props.viewer.y,
                         zoom |-> props.viewer.zoom]

\* the payload onViewportChange hands to updateViewport
ViewportPayload(target) ==
    [set |-> TRUE, x |-> MathRound(target.x), y |-> MathRound(target.y), zoom |-> target.zoom]

----------------------------------------------------------------------------
(* Annotations and the hit test *)

\* The escalation radii of onCanvasClick
Radius1 == 50
Radius2 == 150
Radius3 == 500

\* An annotation resource with a fragment selector [x, y, w, h] on canvas target
Rect(id, target, x, y, w, h) ==
    [id |-> id, targetId |-> target, fragmentSelector |-> <<x, y, w, h>>]

\* An annotation resource with no selector the hit test knows
NoSelector(id, target) == [id |-> id, targetId |-> target, fragmentSelector |-> <<>>]

AnnotationList(id, resources) == [id |-> id, resources |-> resources]

\* The canvases of the canvas world, with their world offset and size
Canvases == <<
    [id |-> "c1", x |-> 0, y |-> 0, w |-> 3000, h |-> 3000],
    [id |-> "c2", x |-> 3100, y |-> 50, w |-> 1000, h |-> 1000]
>>

NoCanvas == [id |-> "", x |-> 0, y |-> 0, w |-> 0, h |-> 0]

(* The annotation states of the application: props.annotations and            *)
(* props.searchAnnotations.                                                   *)
AnnoCfgs == <<
    \* an annotation nested in another, one on the second canvas, one without a
    \* selector, and a search result overlapping both
    [annotations |-> <<
        AnnotationList("L1", <<Rect("A", "c1", 100, 100, 800, 800),
                               Rect("B", "c1", 400, 400, 60, 60),
                               Rect("X", "c2", 100, 100, 800, 800),
                               NoSelector("N", "c1")>>)>>,
     searchAnnotations |-> <<
        AnnotationList("S1", <<Rect("S", "c1", 440, 440, 400, 400)>>)>>],
    \* three annotations with one and the same rectangle, in three lists, and a
    \* small one they contain
    [annotations |-> <<
        AnnotationList("L1", <<Rect("D", "c1", 0, 0, 2000, 2000)>>),
        AnnotationList("L2", <<Rect("E", "c1", 0, 0, 2000, 2000)>>)>>,
     searchAnnotations |-> <<
        AnnotationList("S1", <<Rect("F", "c1", 0, 0, 2000, 2000),
                               Rect("G", "c1", 900, 900, 200, 200)>>)>>],
    \* two annotations that differ only beyond 150 units of the point (1000, 1000)
    [annotations |-> <<
        AnnotationList("L1", <<Rect("D", "c1", 0, 0, 2000, 2000),
                               Rect("H", "c1", 700, 700, 600, 600)>>)>>,
     searchAnnotations |-> <<>>]
>>

CfgIds == 1..Len(AnnoCfgs)

\* The points the pointer is clicked and moved at
PointerPoints == {
    [x |-> 430, y |-> 430], [x |-> 450, y |-> 450], [x |-> 100, y |-> 100],
    [x |-> 3050, y |-> 10], [x |-> 3500, y |-> 500], [x |-> 500, y |-> 500],
    [x |-> 1000, y |-> 1000], [x |-> 2500, y |-> 2500]}

\* The points annotationsAtPoint is probed at: around the edges of the selectors
ProbeXs == {99, 100, 399, 400, 460, 461, 900, 901, 3199, 3200, 4000, 4001}
ProbeYs == {99, 100, 149, 150, 400, 460, 461, 900, 901, 950, 951}

\* canvasWorld.canvasToWorldCoordinates(canvasId): [x, y, ...]
canvasToWorldCoordinates(canvasId) ==
    LET i == CHOOSE k \in 1..Len(Canvases) : Canvases[k].id = canvasId
    IN  <<Canvases[i].x, Canvases[i].y>>

\* canvasWorld.canvasAtPoint(point): the canvas at a world point, or none
canvasAtPoint(point) ==
    LET at == {i \in 1..Len(Canvases) :
                /\ Canvases[i].x <= point.x /\ point.x <= Canvases[i].x + Canvases[i].w
                /\ Canvases[i].y <= point.y /\ point.y <= Canvases[i].y + Canvases[i].h}
    IN  IF at = {} THEN NoCanvas ELSE Canvases[CHOOSE i \in at : \A j \in at : i <= j]

\* isAnnotationAtPoint with an exclusive right and bottom edge
isAnnotationAtPointExclusive(resource, canvas, point) ==
    LET c == canvasToWorldCoordinates(canvas.id)
        relativeX == point.x - c[1]
        relativeY == point.y - c[2]
        f == resource.fragmentSelector
    IN  IF f # <<>>
        THEN /\ f[1] <= relativeX /\ relativeX < f[1] + f[3]
             /\ f[2] <= relativeY /\ relativeY < f[2] + f[4]
        ELSE FALSE

\* isAnnotationAtPoint(resource, canvas, point).  The svgSelector branch is the
\* browser's isPointInPath and is not modelled: resources have a fragment
\* selector or none.
isAnnotationAtPoint(resource, canvas, point) ==
    LET c == canvasToWorldCoordinates(canvas.id)
        relativeX == point.x - c[1]
        relativeY == point.y - c[2]
        f == resource.fragmentSelector
    IN  IF f # <<>>
        THEN /\ f[1] <= relativeX /\ relativeX <= f[1] + f[3]
             /\ f[2] <= relativeY /\ relativeY <= f[2] + f[4]
        ELSE FALSE

\* flatten(lists.map(l => l.resources))
RECURSIVE FlattenResources(_)
FlattenResources(lists) ==
    IF lists = <<>> THEN <<>>
    ELSE Head(lists).resources \o FlattenResources(Tail(lists))

\* annotationsAtPoint without the test of the resource's target canvas
annotationsAtPointAnyCanvas(cfg, canvas, point) ==
    LET lists == AnnoCfgs[cfg].annotations \o AnnoCfgs[cfg].searchAnnotations
        AtPoint(resource) == isAnnotationAtPoint(resource, canvas, point)
    IN  SelectSeq(FlattenResources(lists), AtPoint)

\* annotationsAtPoint(canvas, point), the props holding annotation state cfg
annotationsAtPoint(cfg, canvas, point) ==
    LET lists == AnnoCfgs[cfg].annotations \o AnnoCfgs[cfg].searchAnnotations
        AtPoint(resource) == /\ canvas.id = resource.targetId
                             /\ isAnnotationAtPoint(resource, canvas, point)
    IN  SelectSeq(FlattenResources(lists), AtPoint)

(* annosWithClickScore(offset)(anno): the number of points (point.x + xOffset,  *)
(* point.y + yOffset), -offset <= xOffset, yOffset <= offset, the annotation is *)
(* at.  anno is at point itself, and a fragment selector tests x and y apart,   *)
(* so these points are the columns that hold point's row times the rows that    *)
(* hold point's column.                                                         *)
annosWithClickScore(offset, anno, canvas, point) ==
    LET cols == {xOffset \in (0 - offset)..offset :
                    isAnnotationAtPoint(anno, canvas, [x |-> point.x + xOffset, y |-> point.y])}
        rows == {yOffset \in (0 - offset)..offset :
                    isAnnotationAtPoint(anno, canvas, [x |-> point.x, y |-> point.y + yOffset])}
    IN  [anno |-> anno, score |-> Cardinality(cols) * Cardinality(rows)]

\* e goes behind the entries of the sorted list whose score is not greater
RECURSIVE InsertByScore(_, _)
InsertByScore(e, sorted) ==
    IF sorted = <<>> THEN <<e>>
    ELSE IF Head(sorted).score <= e.score
         THEN <<Head(sorted)>> \o InsertByScore(e, Tail(sorted))
         ELSE <<e>> \o sorted

RECURSIVE StableSort(_, _)
StableSort(list, sorted) ==
    IF list = <<>> THEN sorted
    ELSE StableSort(Tail(list), InsertByScore(Head(list), sorted))

Reverse(list) == [i \in 1..Len(list) |-> list[Len(list) + 1 - i]]

\* sortBy in descending order of score
sortByDescending(list) == Reverse(StableSort(Reverse(list), <<>>))

\* sortBy that does not keep the order of entries with equal scores
sortByUnstable(list) == StableSort(Reverse(list), <<>>)

\* lodash sortBy(list, 'score'): ascending, stable
sortBy(list) == StableSort(list, <<>>)

\* sortBy(annos.map(annosWithClickScore(offset)), 'score')
ScoredAt(offset, annos, canvas, point) ==
    sortBy([i \in 1..Len(annos) |-> annosWithClickScore(offset, annos[i], canvas, point)])

\* The element of a one-element set (the set's expression is evaluated once)
Only(S) == CHOOSE v \in S : TRUE

\* annosWithScore[0], and whether annosWithScore[0].score !== annosWithScore[1].score
Lowest(annosWithScore, offset) ==
    [anno |-> annosWithScore[1].anno, radius |-> offset,
     differs |-> annosWithScore[1].score # annosWithScore[2].score]

\* The annotation onCanvasClick toggles among two or more at the point, and the
\* radius it was found at
ClickChoice(annos, canvas, point) ==
    LET first == Only({Lowest(s, Radius1) : s \in {ScoredAt(Radius1, annos, canvas, point)}})
        second == Only({Lowest(s, Radius2) : s \in {ScoredAt(Radius2, annos, canvas, point)}})
        third == Only({Lowest(s, Radius3) : s \in {ScoredAt(Radius3, annos, canvas, point)}})
    IN  IF first.differs THEN first
        ELSE IF second.differs THEN second
        ELSE third

\* xor(a, b).length > 0
XorNonEmpty(a, b) == Range(a) # Range(b)

Ids(annos) == [i \in 1..Len(annos) |-> annos[i].id]

NoPointerEvent == [op |-> "none", point |-> [x |-> 0, y |-> 0], canvas |-> "",
                   hits |-> <<>>, choice |-> "", radius |-> 0, notes |-> <<>>,
                   prevented |-> FALSE, repeated |-> FALSE, behind |-> FALSE,
                   selectedBefore |-> ""]

\* The pointer handlers have not run
PointerIdle ==
    /\ pprops = [cfg |-> 1, hoveredAnnotationIds |-> <<>>, selectedAnnotationId |-> ""]
    /\ app = [cfg |-> 1, hovered |-> <<>>, selected |-> ""]
    /\ ptr = NoPointerEvent

\* annotationsAtPoint has not been called
ProbeIdle ==
    probe = [cfg |-> 1, canvas |-> 1, point |-> [x |-> 0, y |-> 0], called |-> FALSE,
             result |-> <<>>]

----------------------------------------------------------------------------
(* The annotation overlay *)

\* props.annotations: one list; the same list with another selector in its
\* resource; the list with a second resource
OverlayAnnotations == {
    <<AnnotationList("L1", <<Rect("A", "c1", 100, 100, 800, 800)>>)>>,
    <<AnnotationList("L1", <<Rect("A", "c1", 200, 200, 800, 800)>>)>>,
    <<AnnotationList("L1", <<Rect("A", "c1", 100, 100, 800, 800),
                             Rect("B", "c1", 400, 400, 60, 60)>>)>>}

\* props.searchAnnotations
OverlaySearchAnnotations == {
    <<>>,
    <<AnnotationList("S1", <<Rect("S", "c1", 440, 440, 400, 400)>>)>>}

\* The props renderAnnotations and componentDidUpdate read
OverlayProps ==
    [annotations : OverlayAnnotations,
     searchAnnotations : OverlaySearchAnnotations,
     hoveredAnnotationIds : {<<>>, <<"A">>},
     selectedAnnotationId : {"", "A"},
     drawAnnotations : BOOLEAN,
     drawSearchAnnotations : {TRUE}]

ResourceIds(annotation) == [i \in 1..Len(annotation.resources) |-> annotation.resources[i].id]

\* OpenSeadragonViewer.annotationsMatch(currentAnnotations, prevAnnotations)
annotationsMatch(currentAnnotations, prevAnnotations) ==
    IF Len(currentAnnotations) = 0 /\ Len(prevAnnotations) = 0 THEN TRUE
    ELSE IF Len(currentAnnotations) # Len(prevAnnotations) THEN FALSE
    ELSE \A index \in 1..Len(currentAnnotations) :
            LET newIds == ResourceIds(currentAnnotations[index])
                prevIds == ResourceIds(prevAnnotations[index])
            IN  IF Len(newIds) = 0 /\ Len(prevIds) = 0 THEN TRUE
                ELSE IF Len(newIds) # Len(prevIds) THEN FALSE
                ELSE /\ currentAnnotations[index].id = prevAnnotations[index].id
                     /\ newIds = prevIds

\* The first condition of componentDidUpdate: the overlay is to be redrawn
RedrawNeeded(cur, prev) ==
    \/ ~annotationsMatch(cur.searchAnnotations, prev.searchAnnotations)
    \/ ~annotationsMatch(cur.annotations, prev.annotations)
    \/ cur.selectedAnnotationId # prev.selectedAnnotationId
    \/ XorNonEmpty(cur.hoveredAnnotationIds, prev.hoveredAnnotationIds)
    \/ cur.drawAnnotations # prev.drawAnnotations
    \/ cur.drawSearchAnnotations # prev.drawSearchAnnotations

\* What renderAnnotations puts on the overlay, the props being p: the search
\* annotations, then the annotations, each resource with its hovered and
\* selected marks
renderAnnotations(p) ==
    [search |-> IF p.drawSearchAnnotations THEN p.searchAnnotations ELSE <<>>,
     annotations |-> IF p.drawAnnotations THEN p.annotations ELSE <<>>,
     hovered |-> p.hoveredAnnotationIds,
     selected |-> p.selectedAnnotationId]

\* The initial this.updateCanvas, and the one canvasUpdateCallback() returns when
\* the props are p
NoopCallback == [kind |-> "noop", created |-> <<>>]

canvasUpdateCallback(p) == [kind |-> "callback", created |-> <<p>>]

\* A callback that draws the props it was created with
canvasUpdateCaptured(callback, p) == renderAnnotations(callback.created[1])

\* The call of a callback made by canvasUpdateCallback: clear, resize, and
\* renderAnnotations, which reads this.props when it is called
canvasUpdate(callback, p) == renderAnnotations(p)

NothingDrawn == [search |-> <<>>, annotations |-> <<>>, hovered |-> <<>>, selected |-> ""]

\* The overlay before the component is mounted
OverlayIdle ==
    overlay = [op |-> "none", mounted |-> FALSE,
               props |-> CHOOSE p \in OverlayProps : TRUE,
               updateCanvas |-> NoopCallback, forceRedraw |-> FALSE,
               drawn |-> NothingDrawn, changes |-> 0, coalesced |-> 0]

----------------------------------------------------------------------------
(* Thumbnails: getThumbnail(resource, iiifOpts) *)

\* An absent property: a resource without a service, a thumbnail, a width
None == <<>>

\* A IIIF image service of a resource
Service(id, profile) == <<[id |-> id, profile |-> profile]>>

\* A resource of a manifest: its type, id, declared size, image service,
\* thumbnail, members (canvases, manifests, image resources) and start canvas id
Node(type, id, width, height, service, thumbnail, items, start) ==
    [type |-> type, id |-> id, width |-> width, height |-> height,
     service |-> service, thumbnail |-> thumbnail, items |-> items, start |-> start]

\* An image resource without members
Image(id, width, height, service, thumbnail) ==
    Node("Image", id, width, height, service, thumbnail, <<>>, "")

\* The declared sizes of the images with a level 1 or 2 service
Originals == {<<1000, 2000>>, <<2000, 1000>>, <<300, 400>>, <<640, 480>>}

\* maxWidth and maxHeight are absent (0) or a multiple of ConstraintStep
ConstraintValues == {0} \cup {ConstraintStep * k : k \in 1..MaxSteps}

IiifOpts == [maxWidth : ConstraintValues, maxHeight : ConstraintValues]

\* Math.floor(n / d) of positive integers
FloorDiv(n, d) == n \div d

\* Math.round(n / d) of positive integers
RoundDiv(n, d) == (2 * n + d) \div (2 * d)

\* The size parameters "w,", ",h" and "!w,h" of the IIIF Image API
SizeW(w) == ToString(w) \o ","
SizeH(h) == "," \o ToString(h)
SizeBestFit(w, h) == "!" \o ToString(w) \o "," \o ToString(h)

\* {serviceId}/full/{size}/0/default.jpg
IiifUrl(serviceId, size) == serviceId \o "/full/" \o size \o "/0/default.jpg"

\* The size scaled to fit in the box w x h: scale = min(w / W, h / H), each
\* dimension rounded
BestFit(W, H, w, h) ==
    IF w * H <= h * W
    THEN [size |-> SizeBestFit(w, h), width |-> w, height |-> RoundDiv(w * H, W)]
    ELSE [size |-> SizeBestFit(w, h), width |-> RoundDiv(h * W, H), height |-> h]

\* The target size computed from the constraints, W x H being the declared size
TargetSize(W, H, opts) ==
    IF opts.maxWidth # 0 /\ opts.maxHeight = 0
    THEN [size |-> SizeW(opts.maxWidth), width |-> opts.maxWidth,
          height |-> RoundDiv(opts.maxWidth * H, W)]
    ELSE IF opts.maxWidth = 0 /\ opts.maxHeight # 0
    THEN [size |-> SizeH(opts.maxHeight), width |-> RoundDiv(opts.maxHeight * W, H),
          height |-> opts.maxHeight]
    ELSE BestFit(W, H, opts.maxWidth, opts.maxHeight)

\* The target size without the minimum size
RequestedSizeNoFloor(W, H, opts) ==
    IF opts.maxWidth = 0 /\ opts.maxHeight = 0
    THEN [size |-> SizeH(minDimension), width |-> RoundDiv(minDimension * W, H),
          height |-> minDimension]
    ELSE TargetSize(W, H, opts)

\* The requested size with the full size of the image as the default
RequestedSizeFullDefault(W, H, opts) ==
    IF opts.maxWidth = 0 /\ opts.maxHeight = 0
    THEN [size |-> "full", width |-> W, height |-> H]
    ELSE RequestedSizeNoFloor(W, H, opts)

\* The size requested of a level 1 or 2 service: ",120" without constraints, the
\* box minDimension x minDimension when the target width and height are both
\* below minDimension, the target size otherwise
RequestedSize(W, H, opts) ==
    IF opts.maxWidth = 0 /\ opts.maxHeight = 0
    THEN [size |-> SizeH(minDimension), width |-> RoundDiv(minDimension * W, H),
          height |-> minDimension]
    ELSE LET t == TargetSize(W, H, opts)
         IN  IF t.width < minDimension /\ t.height < minDimension
             THEN BestFit(W, H, minDimension, minDimension)
             ELSE t

\* No thumbnail: the resource has no thumbnail and no member to take one from
Undefined == [url |-> "", width |-> None, height |-> None]

\* A declared dimension as a property of the result
Dimension(n) == IF n = 0 THEN None ELSE <<n>>

\* The thumbnail of a resource without a IIIF image service: its id and declared size
staticImageUrl(resource) ==
    [url |-> resource.id, width |-> Dimension(resource.width),
     height |-> Dimension(resource.height)]

\* The thumbnail of a level 0 resource, with the id of the service as its url
level0ServiceUrl(resource) ==
    [url |-> resource.service[1].id, width |-> None, height |-> None]

\* The thumbnail of a resource with a level 0 service: the resource itself
level0ImageUrl(resource) ==
    [url |-> resource.id, width |-> None, height |-> None]

\* The thumbnail of a resource with a IIIF image service
iiifThumbnailUrl(resource, iiifOpts) ==
    LET service == resource.service[1]
    IN  IF service.profile = "level0"
        THEN level0ImageUrl(resource)
        ELSE LET r == RequestedSize(resource.width, resource.height, iiifOpts)
             IN  [url |-> IiifUrl(service.id, r.size),
                  width |-> <<r.width>>, height |-> <<r.height>>]

\* The members of a resource that have one of the types
Members(resource, types) == SelectSeq(resource.items, LAMBDA m : m.type \in types)

\* The start canvas of a manifest
StartCanvas(resource) ==
    SelectSeq(resource.items, LAMBDA m : m.type = "Canvas" /\ m.id = resource.start)

\* The member a resource without a thumbnail is represented by: the start canvas
\* of a manifest if set, else its first canvas; the first manifest of a
\* collection; the first image resource of a canvas
Representative(resource) ==
    LET of == IF resource.type = "Manifest"
              THEN IF resource.start # "" THEN StartCanvas(resource)
                   ELSE Members(resource, {"Canvas"})
              ELSE IF resource.type = "Collection" THEN Members(resource, {"Manifest"})
              ELSE IF resource.type = "Canvas" THEN Members(resource, {"Image"})
              ELSE <<>>
    IN  IF of = <<>> THEN None ELSE <<of[1]>>

\* The resource the thumbnail is taken from next, the members being looked at
\* before the thumbnail property
NextMemberFirst(resource) ==
    IF Representative(resource) # None THEN Representative(resource)
    ELSE resource.thumbnail

\* The resource the thumbnail of a manifest, collection, canvas or other
\* resource is taken from next: its thumbnail property, else its representative
NextResource(resource) ==
    IF resource.thumbnail # None THEN resource.thumbnail
    ELSE Representative(resource)

\* The resources getThumbnail goes through from a resource that is not an
\* image: the resource, then the resource its thumbnail is taken from, down to the
\* image or the resource that has none
RECURSIVE ResolutionPath(_)
ResolutionPath(resource) ==
    IF resource.type = "Image" \/ NextResource(resource) = None THEN <<resource>>
    ELSE <<resource>> \o ResolutionPath(NextResource(resource)[1])

\* getThumbnail that takes the thumbnail property of an image before its own
\* image service
RECURSIVE getThumbnailThumbnailFirst(_, _)
getThumbnailThumbnailFirst(resource, iiifOpts) ==
    IF resource.thumbnail # None
    THEN getThumbnailThumbnailFirst(resource.thumbnail[1], iiifOpts)
    ELSE IF resource.type = "Image"
    THEN IF resource.service # None THEN iiifThumbnailUrl(resource, iiifOpts)
         ELSE staticImageUrl(resource)
    ELSE IF Representative(resource) = None THEN Undefined
    ELSE getThumbnailThumbnailFirst(Representative(resource)[1], iiifOpts)

\* getThumbnail(resource, iiifOpts)
RECURSIVE getThumbnail(_, _)
getThumbnail(resource, iiifOpts) ==
    IF resource.type = "Image"
    THEN IF resource.thumbnail # None /\ resource.thumbnail[1].service # None
         THEN getThumbnail(resource.thumbnail[1], iiifOpts)
         ELSE IF resource.service # None THEN iiifThumbnailUrl(resource, iiifOpts)
         ELSE IF resource.thumbnail # None
         THEN getThumbnail(resource.thumbnail[1], iiifOpts)
         ELSE staticImageUrl(resource)
    ELSE IF NextResource(resource) = None THEN Undefined
         ELSE getThumbnail(NextResource(resource)[1], iiifOpts)

\* iiifService(url, props, serviceProps): a resource 'arbitrary-url' with one
\* image service at url
iiifService(url, width, height, profile) ==
    Image("arbitrary-url", width, height, Service(url, profile), None)

iiifLevel0Service == iiifService("http://example.com", 0, 0, "level0")

\* The resources with a level 1 or a level 2 service, one of each declared size
iiifSizedServices ==
    {iiifService("http://example.com", o[1], o[2], profile) :
        o \in Originals, profile \in {"level1", "level2"}}

\* Images without a service: with and without a declared size
StaticImages ==
    {Image("http://example.com", 50, 70, None, None),
     Image("http://example.com", 0, 0, None, None)}

\* The images a thumbnail is resolved to
LeafImages == iiifSizedServices \cup StaticImages \cup {iiifLevel0Service}

\* A canvas with one image resource of a level 2 service at id
CanvasOfImage(canvasId, imageId) ==
    Node("Canvas", canvasId, 1000, 2000, None, None,
         <<Image(imageId \o "/full/full/0/default.jpg", 1000, 2000,
                 Service(imageId, "level2"), None)>>, "")

Canvas1 == CanvasOfImage("canvas/1", "https://stacks.example/image/1")
Canvas2 == CanvasOfImage("canvas/2", "https://stacks.example/image/2")

\* A manifest of two canvases, with a thumbnail and a start canvas or without
ManifestOf(thumbnail, start) ==
    Node("Manifest", "manifest", 0, 0, None, thumbnail, <<Canvas1, Canvas2>>, start)

ThumbnailLevel1 == <<iiifService("http://example.com", 1000, 2000, "level1")>>

ThumbnailStatic == <<Image("https://example.org/manifest1/thumbnail.jpg", 0, 0, None, None)>>

\* The resources getThumbnail is called with
ThumbnailResources ==
    \* a resource with a thumbnail
    {Node("Whatever", "xyz", 0, 0, None, <<t>>, <<>>, "") : t \in LeafImages}
    \* image resources: a thumbnail only, a service only, a service and a thumbnail
    \cup {Image("xyz", 0, 0, None, <<t>>) : t \in StaticImages}
    \cup {Image("xyz", 0, 0, Service("http://example.com", "level0"), None)}
    \cup {Image("xyz", 1000, 2000, Service("some-url", "level1"), t) :
            t \in {None, <<Image("some-url", 50, 70, None, None)>>, ThumbnailLevel1}}
    \* canvases: with a thumbnail, with image resources, a sound before the image,
    \* without any
    \cup {[Canvas1 EXCEPT !.thumbnail = ThumbnailLevel1], Canvas1,
          [Canvas1 EXCEPT !.items = <<Node("Sound", "sound", 0, 0, None, None, <<>>, "")>>
                                     \o Canvas1.items],
          [Canvas1 EXCEPT !.items = <<>>]}
    \* manifests: with a thumbnail, with a start canvas, with neither, without canvases
    \cup {ManifestOf(t, s) : t \in {None, ThumbnailLevel1}, s \in {"", "canvas/2"}}
    \cup {[ManifestOf(None, "") EXCEPT !.items = <<>>]}
    \* collections: with a thumbnail, of manifests, empty
    \cup {Node("Collection", "collection", 0, 0, None, t,
               <<[ManifestOf(ThumbnailStatic, "") EXCEPT !.items = <<>>],
                 ManifestOf(None, "")>>, "") : t \in {None, ThumbnailLevel1}}
    \cup {Node("Collection", "collection", 0, 0, None, None, <<>>, "")}
    \* a resource without a thumbnail and without members
    \cup {Node("Whatever", "xyz", 0, 0, None, None, <<>>, "")}

NoThumbnail ==
    [called |-> FALSE, resource |-> Node("Whatever", "", 0, 0, None, None, <<>>, ""),
     iiifOpts |-> [maxWidth |-> 0, maxHeight |-> 0], result |-> Undefined]

\* The thumbnail resolution has not been called
ThumbIdle == thumb = NoThumbnail

----------------------------------------------------------------------------
(* The viewer's world: refreshTileProperties *)

\* The content resources of the canvas world are 1, 2, ...; an item of the world
\* has the id of its source and an opacity; the source 0 is one the canvas world
\* does not know
Item(source, opacity) == [source |-> source, opacity |-> opacity]

UnknownSource == 0

\* canvasWorld.contentResource(id) of a canvas world that knows the resources 1..k
contentResource(k, id) == IF id \in 1..k THEN <<id>> ELSE <<>>

\* canvasWorld.layerIndexOfImageResource(contentResource)
layerIndexOfImageResource(resource) == resource - 1

\* canvasWorld.layerOpacityOfImageResource(contentResource)
layerOpacityOfImageResource(resource) == resource % 2

\* world.getItemAt(i) for i = 0 .. world.getItemCount() - 1
getItemAt(items, i) == items[i + 1]

\* world.getIndexOfItem(item)
getIndexOfItem(items, item) ==
    (CHOOSE p \in 1..Len(items) : items[p].source = item.source) - 1

\* world.setItemIndex(item, index): the item is taken out of the world and put in
\* again at index, unless it is there already
setItemIndex(items, item, index) ==
    LET oldIndex == getIndexOfItem(items, item)
        without == SubSeq(items, 1, oldIndex) \o SubSeq(items, oldIndex + 2, Len(items))
    IN  IF index = oldIndex THEN items
        ELSE SubSeq(without, 1, index) \o <<items[oldIndex + 1]>>
                 \o SubSeq(without, index + 1, Len(without))

\* item.setOpacity(opacity)
setOpacity(items, item, opacity) ==
    [p \in 1..Len(items) |->
        IF items[p].source = item.source THEN [items[p] EXCEPT !.opacity = opacity]
        ELSE items[p]]

\* items.forEach((item, i) => ...) of refreshTileProperties from the i-th item of
\* the list taken at the start on, world being the viewer's world so far and k the
\* number of resources the canvas world knows
RECURSIVE refreshFrom(_, _, _, _)
refreshFrom(world, items, i, k) ==
    IF i >= Len(items) THEN world
    ELSE LET item == getItemAt(items, i)
             resource == contentResource(k, item.source)
         IN  IF resource = <<>> THEN refreshFrom(world, items, i + 1, k)
             ELSE LET newIndex == layerIndexOfImageResource(resource[1])
                      moved == IF i # newIndex THEN setItemIndex(world, item, newIndex)
                               ELSE world
                  IN  refreshFrom(setOpacity(moved, item,
                                             layerOpacityOfImageResource(resource[1])),
                                  items, i + 1, k)

\* refreshTileProperties(), the viewer's world being world
refreshTileProperties(world, k) == refreshFrom(world, world, 0, k)

\* The orders of the items of a set
RECURSIVE Orders(_)
Orders(S) ==
    IF S = {} THEN {<<>>}
    ELSE UNION {{<<x>> \o o : o \in Orders(S \ {x})} : x \in S}

\* The worlds refreshTileProperties is called on: the items of the resources 1..k
\* in every order, with or without an item of an unknown source
TileWorlds(k) ==
    UNION {Orders({Item(r, 1) : r \in 1..k} \cup U) :
              U \in {{}, {Item(UnknownSource, 0)}, {Item(UnknownSource, 1)}}}

NoRefresh == [called |-> FALSE, known |-> 0, before |-> <<>>, after |-> <<>>]

\* refreshTileProperties has not been called
TilesIdle == tiles = NoRefresh

----------------------------------------------------------------------------
(* MiradorCanvas: processAnnotations *)

\* A value of the canvas's JSON: undefined, null, a string, an object with its
\* type (@type or type), id (@id or id) and items ("absent", "empty" for [],
\* "some"), or an array of such values
JsValue(tag, type, id, items, elems) ==
    [tag |-> tag, type |-> type, id |-> id, items |-> items, elems |-> elems]

JsUndefined == JsValue("undefined", "", "", "absent", <<>>)
JsNull == JsValue("null", "", "", "absent", <<>>)
JsString(s) == JsValue("string", "", s, "absent", <<>>)
JsObject(type, id, items) == JsValue("object", type, id, items, <<>>)
JsArray(elems) == JsValue("array", "", "", "absent", elems)

\* flatten(new Array(value)): the elements of an array, the value itself otherwise
flattenNewArray(value) == IF value.tag = "array" THEN value.elems ELSE <<value>>

\* otherContent && (typeof otherContent === 'string'
\*                  || otherContent['@type'] === 'sc:AnnotationList')
IsAnnotationListEntry(otherContent) ==
    /\ otherContent.tag \notin {"undefined", "null"}
    /\ \/ otherContent.tag = "string"
       \/ otherContent.type = "sc:AnnotationList"

\* The uris of every entry of otherContent that is not undefined or null
annotationListUrisUnfiltered(canvas) ==
    LET entries == SelectSeq(flattenNewArray(canvas.otherContent),
                             LAMBDA e : e.tag \notin {"undefined", "null"})
    IN  [i \in 1..Len(entries) |-> entries[i].id]

\* get annotationListUris()
annotationListUris(canvas) ==
    LET entries == SelectSeq(flattenNewArray(canvas.otherContent), IsAnnotationListEntry)
    IN  [i \in 1..Len(entries) |-> entries[i].id]

\* get canvasAnnotationPages()
canvasAnnotationPages(canvas) ==
    SelectSeq(flattenNewArray(canvas.annotations),
              LAMBDA a : a.tag \notin {"undefined", "null"} /\ a.type = "AnnotationPage")

\* The calls processAnnotations makes
FetchCall(canvasId, id) == [fn |-> "fetchAnnotation", canvasId |-> canvasId, id |-> id,
                            page |-> JsUndefined]
ReceiveCall(canvasId, id, page) ==
    [fn |-> "receiveAnnotation", canvasId |-> canvasId, id |-> id, page |-> page]

\* processAnnotations(fetchAnnotation, receiveAnnotation): the calls of the two
\* callbacks, in order; an items property that is an array, empty or not, is truthy
processAnnotations(canvas) ==
    LET uris == annotationListUris(canvas)
        pages == canvasAnnotationPages(canvas)
    IN  [i \in 1..Len(uris) |-> FetchCall(canvas.id, uris[i])]
        \o [i \in 1..Len(pages) |->
                IF pages[i].items = "absent" THEN FetchCall(canvas.id, pages[i].id)
                ELSE ReceiveCall(canvas.id, pages[i].id, pages[i])]

\* The sequences of at most n elements of S
SeqsUpTo(S, n) == UNION {[1..k -> S] : k \in 0..n}

\* The entries of otherContent: two uris, an annotation list, an object of
\* another type, null
OtherContentEntries ==
    {JsString("list/1"), JsString("list/2"), JsObject("sc:AnnotationList", "list/3", "absent"),
     JsObject("sc:Layer", "layer/1", "absent"), JsNull}

\* The entries of annotations: a referenced page, an embedded page without and
\* with annotations, an object that is not a page
AnnotationEntries ==
    {JsObject("AnnotationPage", "page/1", "absent"), JsObject("AnnotationPage", "page/2", "empty"),
     JsObject("AnnotationPage", "page/3", "some"), JsObject("Annotation", "anno/1", "absent")}

\* A property of the canvas: absent, one entry, or an array of up to MaxEntries
\* entries
PropertyValues(entries) ==
    {JsUndefined} \cup (entries \ {JsNull})
        \cup {JsArray(s) : s \in SeqsUpTo(entries, MaxEntries)}

ProcessedCanvases ==
    [id : {"canvas/1"}, otherContent : PropertyValues(OtherContentEntries),
     annotations : PropertyValues(AnnotationEntries)]

NoCalls == [called |-> FALSE,
            canvas |-> [id |-> "", otherContent |-> JsUndefined, annotations |-> JsUndefined],
            log |-> <<>>]

\* processAnnotations has not been called
CallsIdle == calls = NoCalls

\* No action has been reduced
----------------------------------------------------------------------------
(* windowsReducer *)

WindowIds == {"w1", "w2"}

\* A list property of a window, or undefined
NoList == [defined |-> FALSE, ids |-> <<>>]
List(ids) == [defined |-> TRUE, ids |-> ids]

\* {}: an object none of whose properties is set; scalar properties hold
\* "undefined", "true", "false" or a value
EmptyObject ==
    [id |-> "undefined", maximized |-> "undefined", sideBarOpen |-> "undefined",
     view |-> "undefined", sideBarPanel |-> "undefined", x |-> "undefined", y |-> "undefined",
     height |-> "undefined", width |-> "undefined", canvasId |-> "undefined",
     visibleCanvases |-> NoList, companionWindowIds |-> NoList,
     companionAreaOpen |-> "undefined", selectedContentSearchAnnotation |-> "undefined",
     selectedAnnotationId |-> "undefined", hoveredAnnotationId |-> "undefined",
     highlightAllAnnotations |-> "undefined", suggestedSearches |-> "undefined"]

\* action.window of ADD_WINDOW
NewWindow(id) ==
    [EmptyObject EXCEPT !.id = id, !.maximized = "false", !.sideBarOpen = "false",
                        !.companionWindowIds = List(<<>>)]

\* An action: its type, the window it names (windowId, id of UPDATE_WINDOW,
\* payload.windowId, window.id), its value (viewType, panelType, canvasId,
\* annotationId, the id of a companion window, payload.content, the coordinates;
\* "undefined" for an IMPORT_MIRADOR_STATE without windows) and payload.position
Action(type, windowId, value, position) ==
    [type |-> type, windowId |-> windowId, value |-> value, position |-> position]

\* The action types that name a window and write one property or more of it
WindowScopedTypes ==
    {"MAXIMIZE_WINDOW", "MINIMIZE_WINDOW", "UPDATE_WINDOW", "TOGGLE_WINDOW_SIDE_BAR",
     "SET_WINDOW_VIEW_TYPE", "SET_WINDOW_SIDE_BAR_PANEL", "UPDATE_WINDOW_POSITION",
     "SET_WINDOW_SIZE", "SET_CANVAS", "ADD_COMPANION_WINDOW", "UPDATE_COMPANION_WINDOW",
     "REMOVE_COMPANION_WINDOW", "SELECT_CONTENT_SEARCH_ANNOTATION",
     "SELECT_CONTENT_SEARCH_ANNOTATIONS", "SELECT_ANNOTATION", "DESELECT_ANNOTATION",
     "HOVER_ANNOTATION", "TOGGLE_ANNOTATION_DISPLAY", "REQUEST_SEARCH"}

\* The types with a case in windowsReducer
ReducerTypes ==
    WindowScopedTypes \cup {"ADD_WINDOW", "REMOVE_WINDOW", "IMPORT_MIRADOR_STATE"}

\* state[windowId]: the entry, or undefined
Has(state, windowId) == windowId \in DOMAIN state

\* ...state[windowId]: spreading undefined gives no property
Spread(state, windowId) == IF Has(state, windowId) THEN state[windowId] ELSE EmptyObject

\* Only the named entry: the other entries of the state are dropped
SetOnly(state, windowId, entry) == [w \in {windowId} |-> entry]

\* { ...state, [windowId]: entry }
Set(state, windowId, entry) ==
    [w \in DOMAIN state \cup {windowId} |-> IF w = windowId THEN entry ELSE state[w]]

\* removeIn(state, [windowId])
removeIn(state, windowId) == [w \in DOMAIN state \ {windowId} |-> state[w]]

\* !value
Not(value) == IF value = "true" THEN "false" ELSE "true"

\* ids.filter(id => id !== value)
Without(ids, value) == SelectSeq(ids, LAMBDA id : id # value)

\* The case of the action throws a TypeError: it reads a property of undefined
\* (state[windowId].sideBarOpen, state[windowId].companionWindowIds.concat) or
\* merges into undefined (updateIn calls the updater with undefined for a missing
\* key)
Throws(state, action) ==
    \/ /\ action.type \in {"TOGGLE_WINDOW_SIDE_BAR", "TOGGLE_ANNOTATION_DISPLAY",
                           "UPDATE_WINDOW"}
       /\ ~Has(state, action.windowId)
    \/ /\ action.type \in {"ADD_COMPANION_WINDOW", "REMOVE_COMPANION_WINDOW"}
       /\ \/ ~Has(state, action.windowId)
          \/ ~state[action.windowId].companionWindowIds.defined

\* windowsReducer(state, action), for an action whose case does not throw
windowsReducer(state, action) ==
    LET w == action.windowId
        orig == Spread(state, w)
    IN  CASE action.type = "ADD_WINDOW" -> Set(state, w, NewWindow(w))
          [] action.type = "MAXIMIZE_WINDOW" ->
                Set(state, w, [orig EXCEPT !.maximized = "true"])
          [] action.type = "MINIMIZE_WINDOW" ->
                Set(state, w, [orig EXCEPT !.maximized = "false"])
          [] action.type = "UPDATE_WINDOW" ->
                Set(state, w, [orig EXCEPT !.view = action.value])
          [] action.type = "REMOVE_WINDOW" -> removeIn(state, w)
          [] action.type = "TOGGLE_WINDOW_SIDE_BAR" ->
                Set(state, w, [orig EXCEPT !.sideBarOpen = Not(orig.sideBarOpen)])
          [] action.type = "SET_WINDOW_VIEW_TYPE" ->
                Set(state, w, [orig EXCEPT !.view = action.value])
          [] action.type = "SET_WINDOW_SIDE_BAR_PANEL" ->
                Set(state, w, [orig EXCEPT !.sideBarPanel = action.value])
          [] action.type = "UPDATE_WINDOW_POSITION" ->
                Set(state, w, [orig EXCEPT !.x = action.value, !.y = action.value])
          [] action.type = "SET_WINDOW_SIZE" ->
                Set(state, w, [orig EXCEPT !.height = action.value, !.width = action.value,
                                          !.x = action.value, !.y = action.value])
          [] action.type = "SET_CANVAS" ->
                IF ~Has(state, w) THEN state
                ELSE Set(state, w, [orig EXCEPT !.canvasId = action.value,
                                                !.visibleCanvases = List(<<action.value>>)])
          [] action.type = "ADD_COMPANION_WINDOW" ->
                LET added == [orig EXCEPT !.companionWindowIds =
                                  List(Append(orig.companionWindowIds.ids, action.value))]
                IN  Set(state, w,
                        IF action.position = "left"
                        THEN [added EXCEPT !.companionAreaOpen = "true",
                                           !.sideBarPanel = action.value]
                        ELSE added)
          [] action.type = "UPDATE_COMPANION_WINDOW" ->
                IF action.position # "left" THEN state
                ELSE Set(state, w, [orig EXCEPT !.companionAreaOpen = "true"])
          [] action.type = "REMOVE_COMPANION_WINDOW" ->
                Set(state, w, [orig EXCEPT !.companionWindowIds =
                                   List(Without(orig.companionWindowIds.ids, action.value))])
          [] action.type = "SELECT_CONTENT_SEARCH_ANNOTATION" ->
                Set(state, w, [orig EXCEPT !.canvasId = action.value,
                                          !.selectedContentSearchAnnotation = action.value])
          [] action.type = "SELECT_CONTENT_SEARCH_ANNOTATIONS" ->
                Set(state, w, [orig EXCEPT !.selectedContentSearchAnnotation = action.value])
          [] action.type = "SELECT_ANNOTATION" ->
                Set(state, w, [orig EXCEPT !.selectedAnnotationId = action.value])
          [] action.type = "DESELECT_ANNOTATION" ->
                Set(state, w, [orig EXCEPT !.selectedAnnotationId = "undefined"])
          [] action.type = "HOVER_ANNOTATION" ->
                Set(state, w, [orig EXCEPT !.hoveredAnnotationId = action.value])
          [] action.type = "TOGGLE_ANNOTATION_DISPLAY" ->
                Set(state, w, [orig EXCEPT !.highlightAllAnnotations =
                                               Not(orig.highlightAllAnnotations)])
          [] action.type = "IMPORT_MIRADOR_STATE" ->
                IF action.value = "undefined" THEN <<>>
                ELSE Set(<<>>, w, NewWindow(w))
          [] action.type = "REQUEST_SEARCH" ->
                Set(state, w, [orig EXCEPT !.suggestedSearches = "undefined"])
          [] OTHER -> state

\* The actions dispatched: every type for every window, a companion window on
\* either side, a type the reducer has no case for
Actions ==
    {Action(type, w, "v1", "left") : type \in ReducerTypes \cup {"SET_CONFIG"}, w \in WindowIds}
        \cup {Action(type, w, "v1", "right") :
                  type \in {"ADD_COMPANION_WINDOW", "UPDATE_COMPANION_WINDOW"}, w \in WindowIds}
        \cup {Action("IMPORT_MIRADOR_STATE", w, "undefined", "left") : w \in WindowIds}

\* The windows states at the start: none, one or all of the windows added
WindowStates == {[w \in ids |-> NewWindow(w)] : ids \in SUBSET WindowIds}

NoDispatch == [called |-> FALSE, state |-> <<>>, action |-> Action("", "", "", ""),
               thrown |-> FALSE, dispatched |-> 0]

\* No action has reached windowsReducer
WindowsIdle == windows = NoDispatch

----------------------------------------------------------------------------
(* The component's callbacks *)

\* The component has not been given props
ViewerIdle ==
    /\ pc = "constructed"
    /\ props = [viewer |-> NoViewer, world |-> 1]
    /\ store = NoViewer
    /\ osdUpdating = FALSE
    /\ vp = HomePose
    /\ animating = FALSE
    /\ needsAnim = FALSE
    /\ batches = <<>>
    /\ adds = [k \in (1..(MaxBatches)) \X Sources |-> "none"]
    /\ worldItems = {}
    /\ last = NoEvent

\* The state after construction, the first props being drawn from the application
\* poses P (or no viewport state) and the manifest states W
ViewerInit(P, W) ==
    /\ pc = "constructed"
    /\ \E v \in {NoViewer} \cup P, w \in W :
            /\ props = [viewer |-> v, world |-> w]
            /\ store = v
    /\ osdUpdating = FALSE
    /\ vp = HomePose
    /\ animating = FALSE
    /\ needsAnim = FALSE
    /\ batches = <<>>
    /\ adds = [k \in (1..(MaxBatches)) \X Sources |-> "none"]
    /\ worldItems = {}
    /\ last = NoEvent
    /\ PointerIdle
    /\ ProbeIdle
    /\ OverlayIdle
    /\ ThumbIdle
    /\ TilesIdle
    /\ CallsIdle
    /\ WindowsIdle

\* componentDidMount: the viewer is created, the handlers are registered, an
\* application viewport is applied immediately, the image sources are added
ComponentDidMount ==
    /\ pc = "constructed"
    /\ pc' = "idle"
    /\ vp' = IF props.viewer.set
             THEN [x |-> props.viewer.x, y |-> props.viewer.y, zoom |-> props.viewer.zoom]
             ELSE vp
    /\ batches' = Append(batches, [world |-> props.world, zoomAfterAdd |-> ~props.viewer.set,
                                   post |-> "waiting"])
    /\ adds' = NewPromises(adds, 1, props.world)
    /\ last' = [NoEvent EXCEPT !.op = "mount", !.gen = 1,
                    !.cmds = IF props.viewer.set THEN <<"panToNow", "zoomToNow">> ELSE <<>>]
    /\ UNCHANGED <<pointerVars, probe, overlay, thumb, tiles, calls, windows, props, store, osdUpdating, animating, needsAnim, worldItems>>

\* componentDidUpdate(prevProps), the new props being [viewer nv, world nw]; redraw
\* says whether the annotations, the hovered or selected annotation or a draw flag
\* differ from prevProps
ComponentDidUpdate(nv, nw, redraw) ==
    /\ pc \in {"idle", "finishing"}
    /\ pc = "idle" => ~MicrotaskPending
    /\ pc = "finishing" => nv = store /\ nw = props.world /\ ~redraw
    /\ LET prev == props
           cur == Worlds[nw]
           old == Worlds[prev.world]
           sourcesChanged == \/ ~infoResponsesMatch(cur.infoResponses, old.infoResponses)
                             \/ ~nonTiledImagedMatch(cur.nonTiledImages, old.nonTiledImages)
           layersChanged == cur.layers # old.layers
           sync == ~sourcesChanged /\ ~layersChanged /\ ViewportBranch(nv, osdUpdating)
           pan == sync /\ (nv.x # vp.x \/ nv.y # vp.y)
           zoom == sync /\ nv.zoom # vp.zoom
           g == Len(batches) + 1
       IN  /\ sourcesChanged => g <= MaxBatches
           /\ props' = [viewer |-> nv, world |-> nw]
           /\ store' = nv
           /\ IF sourcesChanged
              THEN /\ worldItems' = {}
                   /\ batches' = Append(batches,
                          [world |-> nw,
                           zoomAfterAdd |-> (cur.canvasIds # old.canvasIds) \/ ~nv.set,
                           post |-> "waiting"])
                   /\ adds' = NewPromises(adds, g, nw)
              ELSE UNCHANGED <<worldItems, batches, adds>>
           /\ vp' = [x |-> IF pan THEN nv.x ELSE vp.x,
                     y |-> IF pan THEN nv.y ELSE vp.y,
                     zoom |-> IF zoom THEN nv.zoom ELSE vp.zoom]
           /\ needsAnim' = (needsAnim \/ pan \/ zoom)
           /\ last' = [op |-> "update",
                       gen |-> IF sourcesChanged THEN g ELSE 0,
                       cmds |-> (IF redraw THEN <<"forceRedraw">> ELSE <<>>)
                                \o (IF sourcesChanged THEN <<"close">>
                                    ELSE IF layersChanged THEN <<"refresh">>
                                    ELSE (IF pan THEN <<"panTo">> ELSE <<>>)
                                         \o (IF zoom THEN <<"zoomTo">> ELSE <<>>)),
                       notes |-> <<>>,
                       anim |-> animating,
                       viewerChanged |-> (nv # prev.viewer)]
    /\ UNCHANGED <<pointerVars, probe, overlay, thumb, tiles, calls, windows, pc, osdUpdating, animating>>

\* The then-callback of addAllImageSources for batch g
PostLoad(g) ==
    /\ pc = "idle"
    /\ g \in 1..Len(batches)
    /\ ThenDue(g)
    /\ LET w == Worlds[batches[g].world]
           run == Len(w.infoResponses) > 0 \/ Len(w.nonTiledImages) > 0
           fit == run /\ batches[g].zoomAfterAdd
       IN  /\ vp' = IF fit THEN HomePose ELSE vp
           /\ needsAnim' = IF fit THEN FALSE ELSE needsAnim
           /\ last' = [NoEvent EXCEPT !.op = "postLoad", !.gen = g,
                          !.cmds = (IF fit THEN <<"fitBounds">> ELSE <<>>)
                                   \o (IF run THEN <<"refresh">> ELSE <<>>)]
    /\ batches' = [batches EXCEPT ![g].post = "done"]
    /\ UNCHANGED <<pointerVars, probe, overlay, thumb, tiles, calls, windows, pc, props, store, osdUpdating, animating, adds, worldItems>>

----------------------------------------------------------------------------
(* The viewer's events *)

\* The user pans or zooms the viewer to pose p
UserGesture(p) ==
    /\ pc = "idle" /\ ~MicrotaskPending
    /\ p # vp
    /\ vp' = p
    /\ needsAnim' = TRUE
    /\ last' = [NoEvent EXCEPT !.op = "gesture"]
    /\ UNCHANGED <<pointerVars, probe, overlay, thumb, tiles, calls, windows, pc, props, store, osdUpdating, animating, batches, adds, worldItems>>

\* 'animation-start': () => { this.osdUpdating = true; }
AnimationStart ==
    /\ pc = "idle" /\ ~MicrotaskPending
    /\ needsAnim /\ ~animating
    /\ animating' = TRUE
    /\ needsAnim' = FALSE
    /\ osdUpdating' = TRUE
    /\ last' = [NoEvent EXCEPT !.op = "animationStart"]
    /\ UNCHANGED <<pointerVars, probe, overlay, thumb, tiles, calls, windows, pc, props, store, vp, batches, adds, worldItems>>

\* 'animation-finish', first handler: onViewportChange
AnimationFinishNotify ==
    /\ pc = "idle" /\ ~MicrotaskPending
    /\ animating
    /\ animating' = FALSE
    /\ needsAnim' = FALSE
    /\ pc' = "finishing"
    /\ store' = ViewportPayload(vp)
    /\ last' = [NoEvent EXCEPT !.op = "animationFinish",
                    !.notes = <<ViewportPayload(vp)>>]
    /\ UNCHANGED <<pointerVars, probe, overlay, thumb, tiles, calls, windows, props, osdUpdating, vp, batches, adds, worldItems>>

\* 'animation-finish', second handler: () => { this.osdUpdating = false; }
AnimationFinishClear ==
    /\ pc = "finishing"
    /\ pc' = "idle"
    /\ osdUpdating' = FALSE
    /\ last' = [NoEvent EXCEPT !.op = "animationFinished"]
    /\ UNCHANGED <<pointerVars, probe, overlay, thumb, tiles, calls, windows, props, store, vp, animating, needsAnim, batches, adds, worldItems>>

\* The viewer calls success for a pending add: the item is in its world
AddSuccess(g, s) ==
    /\ pc = "idle" /\ ~MicrotaskPending
    /\ adds[<<g, s>>] = "pending"
    /\ adds' = Resolve(adds, g, s)
    /\ worldItems' = worldItems \cup {<<g, s>>}
    /\ last' = [NoEvent EXCEPT !.op = "addSuccess", !.gen = g]
    /\ UNCHANGED <<pointerVars, probe, overlay, thumb, tiles, calls, windows, pc, props, store, osdUpdating, vp, animating, needsAnim, batches>>

\* The viewer calls error for a pending add
AddError(g, s) ==
    /\ pc = "idle" /\ ~MicrotaskPending
    /\ adds[<<g, s>>] = "pending"
    /\ adds' = Reject(adds, g, s)
    /\ last' = [NoEvent EXCEPT !.op = "addError", !.gen = g]
    /\ UNCHANGED <<pointerVars, probe, overlay, thumb, tiles, calls, windows, pc, props, store, osdUpdating, vp, animating, needsAnim, batches,
                   worldItems>>

\* The steps of the component with application poses P and manifest states W
ViewerNext(P, W) ==
    \/ ComponentDidMount
    \/ \E nv \in {store} \cup P, nw \in W, redraw \in BOOLEAN :
            ComponentDidUpdate(nv, nw, redraw)
    \/ \E g \in 1..MaxBatches : PostLoad(g)
    \/ \E p \in P : UserGesture([x |-> p.x, y |-> p.y, zoom |-> p.zoom])
    \/ AnimationStart
    \/ AnimationFinishNotify
    \/ AnimationFinishClear
    \/ \E g \in 1..MaxBatches, s \in Sources : AddSuccess(g, s)
    \/ \E g \in 1..MaxBatches, s \in Sources : AddError(g, s)

\* Viewport synchronisation: the poses that differ from the origin in one of x, y
\* and zoom, and two manifest states that differ in their layers
SyncPoses == {Pose(x, 0, 1) : x \in Coords}
             \cup {Pose(0, y, 1) : y \in Coords}
             \cup {Pose(0, 0, z) : z \in Zooms}

SyncWorlds == {2, 3}

SpecSync == ViewerInit(SyncPoses, SyncWorlds)
            /\ [][ViewerNext(SyncPoses, SyncWorlds)]_vars

\* The poses that differ from the origin in x or in zoom
SettlePoses == {Pose(x, 0, 1) : x \in Coords} \cup {Pose(0, 0, z) : z \in Zooms}

\* Viewport synchronisation where the viewer starts and finishes its animations
\* and a due then-callback runs
FairSync ==
    /\ ViewerInit(SettlePoses, SyncWorlds)
    /\ [][ViewerNext(SettlePoses, SyncWorlds)]_vars
    /\ WF_vars(ComponentDidMount)
    /\ WF_vars(AnimationStart)
    /\ WF_vars(AnimationFinishNotify)
    /\ WF_vars(AnimationFinishClear)
    /\ \A g \in 1..MaxBatches : WF_vars(PostLoad(g))

\* Image-source registration: four manifest states that differ in their image
\* sources, one application pose
LoadPoses == {Pose(0, 0, 2)}

LoadWorlds == {1, 4, 5, 6}

SpecLoad == ViewerInit(LoadPoses, LoadWorlds)
            /\ [][ViewerNext(LoadPoses, LoadWorlds)]_vars
\* Change of image sources: no sources, two tiled sources, and two tiled sources
\* of which the second is another one
ReloadWorlds == {1, 4, 7}

SpecReload == ViewerInit(LoadPoses, ReloadWorlds)
              /\ [][ViewerNext(LoadPoses, ReloadWorlds)]_vars


\* Image-source registration where the viewer calls success or error for every
\* add it was given, and a then-callback that is due runs
FairLoad ==
    /\ SpecLoad
    /\ WF_vars(ComponentDidMount)
    /\ \A g \in 1..MaxBatches : WF_vars(PostLoad(g))
    /\ \A g \in 1..MaxBatches, s \in Sources :
            SF_vars(AddSuccess(g, s) \/ AddError(g, s))

----------------------------------------------------------------------------
(* The pointer handlers *)

SelectNote(anno) == [type |-> "select", targetId |-> anno.targetId, id |-> anno.id, ids |-> <<>>]

DeselectNote(anno) == [type |-> "deselect", targetId |-> anno.targetId, id |-> anno.id, ids |-> <<>>]

HoverNote(ids) == [type |-> "hover", targetId |-> "", id |-> "", ids |-> ids]

\* toggleAnnotation that selects whatever is selected
toggleAnnotationSelect(anno) == SelectNote(anno)

\* toggleAnnotation(targetId, id): the notification it sends
toggleAnnotation(anno) ==
    IF pprops.selectedAnnotationId = anno.id THEN DeselectNote(anno) ELSE SelectNote(anno)

\* The annotation state after the application has handled a notification:
\* SELECT_ANNOTATION and DESELECT_ANNOTATION as windowsReducer handles them, the
\* hovered set as the hover notification carries it
Reduce(a, note) ==
    IF note.type = "select" THEN [a EXCEPT !.selected = note.id]
    ELSE IF note.type = "deselect" THEN [a EXCEPT !.selected = ""]
    ELSE [a EXCEPT !.hovered = note.ids]

\* this.props with the annotation state the application holds, which has not
\* reached the component yet
thisPropsAhead == [pprops EXCEPT !.cfg = app.cfg]

\* this.props as a pointer handler reads it: the handler runs to completion, and
\* every read of it sees the props the component held when the handler began
thisProps == pprops

\* onCanvasClick(event), the event's position being the world point `point`
OnCanvasClick(point) ==
    LET canvas == canvasAtPoint(point)
        annos == annotationsAtPoint(thisProps.cfg, canvas, point)
    IN  /\ IF canvas = NoCanvas
           THEN /\ ptr' = [NoPointerEvent EXCEPT !.op = "click", !.point = point,
                                !.behind = app.cfg # pprops.cfg]
                /\ app' = app
           ELSE IF Len(annos) = 0
           THEN /\ ptr' = [NoPointerEvent EXCEPT !.op = "click", !.point = point,
                                !.canvas = canvas.id, !.behind = app.cfg # pprops.cfg]
                /\ app' = app
           ELSE \E picked \in {IF Len(annos) = 1
                                THEN [anno |-> annos[1], radius |-> 0, differs |-> FALSE]
                                ELSE ClickChoice(annos, canvas, point)} :
                /\ ptr' = [op |-> "click", point |-> point, canvas |-> canvas.id,
                           hits |-> Ids(annos), choice |-> picked.anno.id,
                           radius |-> picked.radius,
                           notes |-> <<toggleAnnotation(picked.anno)>>,
                           prevented |-> TRUE, repeated |-> FALSE,
                           behind |-> app.cfg # pprops.cfg,
                           selectedBefore |-> app.selected]
                /\ app' = Reduce(app, toggleAnnotation(picked.anno))
        /\ UNCHANGED <<pprops, viewerVars, probe, overlay, thumb, tiles, calls, windows>>

\* onCanvasMouseMove(event), the event's position being the world point `point`
OnCanvasMouseMove(point) ==
    LET canvas == canvasAtPoint(point)
        annos == annotationsAtPoint(thisProps.cfg, canvas, point)
        emit == XorNonEmpty(pprops.hoveredAnnotationIds, Ids(annos))
    IN  /\ IF canvas = NoCanvas
           THEN /\ ptr' = [NoPointerEvent EXCEPT !.op = "move", !.point = point,
                                !.behind = app.cfg # pprops.cfg]
                /\ app' = app
           ELSE /\ ptr' = [NoPointerEvent EXCEPT
                            !.op = "move", !.point = point, !.canvas = canvas.id,
                            !.hits = Ids(annos),
                            !.behind = app.cfg # pprops.cfg,
                            !.notes = IF emit THEN <<HoverNote(Ids(annos))>> ELSE <<>>,
                            !.repeated = /\ emit
                                         /\ ptr.op = "move" /\ ptr.canvas # ""
                                         /\ ptr.notes # <<>>
                                         /\ Range(ptr.hits) = Range(Ids(annos))]
                /\ app' = IF emit THEN Reduce(app, HoverNote(Ids(annos))) ELSE app
        /\ UNCHANGED <<pprops, viewerVars, probe, overlay, thumb, tiles, calls, windows>>

\* The application's annotation, hover and selection state reaches the component
\* as props
PointerPropsUpdate ==
    /\ \/ pprops.hoveredAnnotationIds # app.hovered
       \/ pprops.selectedAnnotationId # app.selected
       \/ pprops.cfg # app.cfg
    /\ pprops' = [cfg |-> app.cfg, hoveredAnnotationIds |-> app.hovered,
                  selectedAnnotationId |-> app.selected]
    /\ UNCHANGED <<app, ptr, viewerVars, probe, overlay, thumb, tiles, calls, windows>>

PointerInit ==
    /\ ViewerIdle
    /\ ProbeIdle
    /\ OverlayIdle
    /\ ThumbIdle
    /\ TilesIdle
    /\ CallsIdle
    /\ WindowsIdle
    /\ \E c \in CfgIds :
          /\ pprops = [cfg |-> c, hoveredAnnotationIds |-> <<>>, selectedAnnotationId |-> ""]
          /\ app = [cfg |-> c, hovered |-> <<>>, selected |-> ""]
    /\ ptr = NoPointerEvent

\* Clicks, and the selection they toggle
ClickNext ==
    \/ \E point \in PointerPoints : OnCanvasClick(point)
    \/ PointerPropsUpdate

SpecClick == PointerInit /\ [][ClickNext]_vars

\* Pointer moves, and the hovered set they notify
HoverNext ==
    \/ \E point \in PointerPoints : OnCanvasMouseMove(point)
    \/ PointerPropsUpdate

SpecHover == PointerInit /\ [][HoverNext]_vars

\* The application receives other annotations (a fetch or a search completes)
AnnotationsChange(c) ==
    /\ c # app.cfg
    /\ app' = [app EXCEPT !.cfg = c]
    /\ UNCHANGED <<pprops, ptr, viewerVars, probe, overlay, thumb, tiles, calls, windows>>

\* The points of the interactions that annotation changes come between
InteractionPoints == {p \in PointerPoints : p.x \in {430, 3050}}

\* Clicks and pointer moves, with changes of the annotations between them
InteractionNext ==
    \/ \E point \in InteractionPoints : OnCanvasClick(point)
    \/ \E point \in InteractionPoints : OnCanvasMouseMove(point)
    \/ \E c \in CfgIds : AnnotationsChange(c)
    \/ PointerPropsUpdate

SpecInteraction == PointerInit /\ [][InteractionNext]_vars

----------------------------------------------------------------------------
(* annotationsAtPoint as a function of the annotations, the canvas and the point *)

ProbeInit ==
    /\ ViewerIdle
    /\ PointerIdle
    /\ OverlayIdle
    /\ ThumbIdle
    /\ TilesIdle
    /\ CallsIdle
    /\ WindowsIdle
    /\ \E c \in CfgIds, k \in 1..Len(Canvases), px \in ProbeXs, py \in ProbeYs :
          probe = [cfg |-> c, canvas |-> k, point |-> [x |-> px, y |-> py],
                   called |-> FALSE, result |-> <<>>]

AnnotationsAtPointCall ==
    /\ ~probe.called
    /\ probe' = [probe EXCEPT !.called = TRUE,
                    !.result = annotationsAtPoint(probe.cfg, Canvases[probe.canvas], probe.point)]
    /\ UNCHANGED <<viewerVars, pointerVars, overlay, thumb, tiles, calls, windows>>

SpecHitTest == ProbeInit /\ [][AnnotationsAtPointCall]_vars

----------------------------------------------------------------------------
(* The overlay's callbacks *)

OverlayInit ==
    /\ ViewerIdle
    /\ PointerIdle
    /\ ProbeIdle
    /\ ThumbIdle
    /\ TilesIdle
    /\ CallsIdle
    /\ WindowsIdle
    /\ \E p \in OverlayProps :
          overlay = [op |-> "none", mounted |-> FALSE, props |-> p,
                     updateCanvas |-> NoopCallback, forceRedraw |-> FALSE,
                     drawn |-> NothingDrawn, changes |-> 0, coalesced |-> 0]

\* componentDidMount: the update-viewport handler is added and updateCanvas set
OverlayDidMount ==
    /\ ~overlay.mounted
    /\ overlay' = [overlay EXCEPT !.op = "mount", !.mounted = TRUE,
                                  !.updateCanvas = canvasUpdateCallback(overlay.props)]
    /\ UNCHANGED <<viewerVars, pointerVars, probe, thumb, tiles, calls, windows>>

\* componentDidUpdate(prevProps), the new props being np: its first condition
OverlayDidUpdate(np) ==
    /\ overlay.mounted
    /\ np # overlay.props
    /\ IF RedrawNeeded(np, overlay.props)
       THEN overlay' = [overlay EXCEPT
                            !.op = "update", !.props = np,
                            !.updateCanvas = canvasUpdateCallback(np),
                            !.forceRedraw = TRUE,
                            !.changes = IF @ < MaxChanges THEN @ + 1 ELSE @]
       ELSE overlay' = [overlay EXCEPT
                            !.op = "update", !.props = np,
                            !.changes = IF @ < MaxChanges THEN @ + 1 ELSE @]
    /\ UNCHANGED <<viewerVars, pointerVars, probe, thumb, tiles, calls, windows>>

\* The viewer draws a frame and raises update-viewport: onUpdateViewport calls
\* this.updateCanvas()
OnUpdateViewport ==
    /\ overlay.mounted
    /\ overlay' = [overlay EXCEPT
                        !.op = "updateViewport",
                        !.drawn = IF overlay.updateCanvas.kind = "noop" THEN @
                                  ELSE canvasUpdate(overlay.updateCanvas, overlay.props),
                        !.forceRedraw = FALSE,
                        !.coalesced = overlay.changes,
                        !.changes = 0]
    /\ UNCHANGED <<viewerVars, pointerVars, probe, thumb, tiles, calls, windows>>

OverlayNext ==
    \/ OverlayDidMount
    \/ \E np \in OverlayProps : OverlayDidUpdate(np)
    \/ OnUpdateViewport

SpecOverlay == OverlayInit /\ [][OverlayNext]_vars

----------------------------------------------------------------------------
(* Thumbnail resolution *)

\* A caller holds a resource and its size constraints
ThumbInit ==
    /\ ViewerIdle
    /\ PointerIdle
    /\ ProbeIdle
    /\ OverlayIdle
    /\ TilesIdle
    /\ CallsIdle
    /\ WindowsIdle
    /\ \E r \in ThumbnailResources, o \in IiifOpts :
           thumb = [NoThumbnail EXCEPT !.resource = r, !.iiifOpts = o]

\* getThumbnail(resource, iiifOpts) is called
GetThumbnail ==
    /\ ~thumb.called
    /\ thumb' = [thumb EXCEPT !.called = TRUE,
                              !.result = getThumbnail(thumb.resource, thumb.iiifOpts)]
    /\ UNCHANGED <<viewerVars, pointerVars, probe, overlay, tiles, calls, windows>>

ThumbNext == GetThumbnail

SpecThumb == ThumbInit /\ [][ThumbNext]_vars

----------------------------------------------------------------------------
(* Layers of the viewer's world *)

\* The viewer's world holds the items of the content resources in some order
TilesInit ==
    /\ ViewerIdle
    /\ PointerIdle
    /\ ProbeIdle
    /\ OverlayIdle
    /\ ThumbIdle
    /\ CallsIdle
    /\ WindowsIdle
    /\ \E k \in 1..MaxItems : \E w \in TileWorlds(k) :
           tiles = [NoRefresh EXCEPT !.known = k, !.before = w]

\* refreshTileProperties() is called
RefreshTileProperties ==
    /\ ~tiles.called
    /\ tiles' = [tiles EXCEPT !.called = TRUE,
                              !.after = refreshTileProperties(tiles.before, tiles.known)]
    /\ UNCHANGED <<viewerVars, pointerVars, probe, overlay, thumb, calls, windows>>

SpecTiles == TilesInit /\ [][RefreshTileProperties]_vars

----------------------------------------------------------------------------
(* Annotations of a canvas *)

\* A canvas of a manifest is wrapped in a MiradorCanvas
CallsInit ==
    /\ ViewerIdle
    /\ PointerIdle
    /\ ProbeIdle
    /\ OverlayIdle
    /\ ThumbIdle
    /\ TilesIdle
    /\ WindowsIdle
    /\ \E c \in ProcessedCanvases : calls = [NoCalls EXCEPT !.canvas = c]

\* processAnnotations(fetchAnnotation, receiveAnnotation) is called
ProcessAnnotations ==
    /\ ~calls.called
    /\ calls' = [calls EXCEPT !.called = TRUE, !.log = processAnnotations(calls.canvas)]
    /\ UNCHANGED <<viewerVars, pointerVars, probe, overlay, thumb, tiles, windows>>

SpecCalls == CallsInit /\ [][ProcessAnnotations]_vars

----------------------------------------------------------------------------
(* The windows state *)

WindowsInit ==
    /\ ViewerIdle
    /\ PointerIdle
    /\ ProbeIdle
    /\ OverlayIdle
    /\ ThumbIdle
    /\ TilesIdle
    /\ CallsIdle
    /\ \E s \in WindowStates : windows = [NoDispatch EXCEPT !.called = TRUE, !.state = s]

\* An action is dispatched: the store keeps the state the reducer returns, and
\* its state when the reducer throws
Dispatch ==
    /\ windows.called
    /\ windows.dispatched < MaxDispatches
    /\ \E action \in Actions :
          windows' = [windows EXCEPT
                         !.action = action,
                         !.thrown = Throws(windows.state, action),
                         !.state = IF Throws(windows.state, action) THEN @
                                   ELSE windowsReducer(@, action),
                         !.dispatched = @ + 1]
    /\ UNCHANGED <<viewerVars, pointerVars, probe, overlay, thumb, tiles, calls>>

SpecWindows == WindowsInit /\ [][Dispatch]_vars

----------------------------------------------------------------------------
(* Properties of the viewport synchronisation (SpecSync) *)

PanOrZoom(cmds) == \E i \in 1..Len(cmds) : cmds[i] \in {"panTo", "zoomTo"}

\* The viewer's targets are the application's viewport state
TargetIsProps ==
    /\ vp.x = props.viewer.x
    /\ vp.y = props.viewer.y
    /\ vp.zoom = props.viewer.zoom

\* C1: a componentDidUpdate that runs while the viewer is animating (it raised
\* animation-start and has not raised animation-finish since) gives the viewer no
\* panTo and no zoomTo command.
C1_NoRequestWhileAnimating ==
    (last.op = "update" /\ last.anim) => ~PanOrZoom(last.cmds)

\* An update that changed the viewport state arrived during an animation, and the
\* viewer was left at a target that differs from it
C1_Witness ==
    /\ last.op = "update" /\ last.anim /\ last.viewerChanged
    /\ props.viewer.set
    /\ ~TargetIsProps

\* C2: the flag is false initially; animation-start sets it; animation-finish first
\* sends exactly one viewport notification, made of the viewer's target pose (x and y
\* rounded) and written to the application state, with the flag untouched, and then
\* clears the flag; no other callback changes the flag or sends a viewport
\* notification.
C2_FlagFollowsAnimation ==
    /\ osdUpdating = FALSE
    /\ [][ /\ last'.op = "animationStart" => osdUpdating'
           /\ last'.op = "animationFinish" =>
                /\ last'.notes = <<[set |-> TRUE, x |-> MathRound(vp.x),
                                    y |-> MathRound(vp.y), zoom |-> vp.zoom]>>
                /\ store' = last'.notes[1]
                /\ vp' = vp
                /\ osdUpdating' = osdUpdating
                /\ pc' = "finishing"
           /\ last'.op = "animationFinished" => pc = "finishing" /\ ~osdUpdating'
           /\ osdUpdating' # osdUpdating =>
                last'.op \in {"animationStart", "animationFinished"}
           /\ last'.notes # <<>> => last'.op = "animationFinish"
         ]_vars

\* An animation has finished: the flag is clear again and the application state holds
\* the pose of the viewer, which the props do not hold yet
C2_Witness ==
    /\ last.op = "animationFinished"
    /\ ~osdUpdating
    /\ store = [set |-> TRUE, x |-> MathRound(vp.x), y |-> MathRound(vp.y), zoom |-> vp.zoom]
    /\ store # props.viewer

\* C3, as claimed: after every componentDidUpdate that brings a changed viewport
\* state while the flag is clear, the viewer's target centre and zoom equal the
\* application state, whatever else changed in the update.
C3_Original ==
    (last.op = "update" /\ last.viewerChanged /\ ~osdUpdating /\ props.viewer.set)
        => TargetIsProps

----------------------------------------------------------------------------
(* Properties of the image-source registration (SpecLoad) *)

SourcesOf(g) == TiledOf(g) \cup SimpleOf(g)

Completed(g, s) == adds[<<g, s>>] \in {"resolved", "rejected"}

\* C4, as claimed: when the post-load actions of a batch run, every image source of
\* the batch, tiled or not, has completed its add operation.
C4_Original ==
    (last.op = "postLoad" /\ last.cmds # <<>>) =>
        \A s \in SourcesOf(last.gen) : Completed(last.gen, s)

\* Every source of every batch that addTileSource or addNonTiledImage hands to the
\* viewer has been handed to it
SubmittedAll ==
    \A g \in 1..Len(batches) :
        \A s \in (TiledOf(g) \cap Worlds[batches[g].world].resources) \cup SimpleOf(g) :
            adds[<<g, s>>] \in {"pending", "resolved", "rejected"}

\* C5: every image source of a batch is submitted to the viewer whatever becomes of
\* the others, and a step in which the add of one source fails changes the add of no
\* other source and leaves the viewer's world and the component as they were.
C5_FailureIsLocal ==
    [][ /\ SubmittedAll'
        /\ \A k \in DOMAIN adds :
              (adds'[k] = "rejected" /\ adds[k] # "rejected") =>
                /\ \A j \in DOMAIN adds : j # k => adds'[j] = adds[j]
                /\ worldItems' = worldItems
                /\ batches' = batches
                /\ pc' = pc
      ]_vars

\* The add of one source of a batch has failed, and after it the add of another
\* source of the same batch has succeeded: its item is in the viewer's world
C5_Witness ==
    /\ last.op = "addSuccess"
    /\ \E s \in Sources, t \in Sources :
          /\ adds[<<last.gen, s>>] = "rejected"
          /\ adds[<<last.gen, t>>] = "resolved"
          /\ <<last.gen, t>> \in worldItems

\* C6, as claimed: once componentDidUpdate has closed the viewer and started the
\* next batch, no item of an earlier batch enters the viewer's world, and no
\* post-load action of an earlier batch runs.
C6_Original ==
    /\ \A item \in worldItems : item[1] = Len(batches)
    /\ (last.op = "postLoad" /\ last.cmds # <<>>) => last.gen = Len(batches)

----------------------------------------------------------------------------
(* Properties of the hit test (SpecHitTest, SpecClick, SpecHover) *)

\* The resources of an annotation state in list order: annotation lists before
\* search-result lists
AllResources(cfg) ==
    FlattenResources(AnnoCfgs[cfg].annotations \o AnnoCfgs[cfg].searchAnnotations)

ResourceOf(cfg, id) ==
    CHOOSE r \in Range(AllResources(cfg)) : r.id = id

CanvasOf(id) == CHOOSE c \in Range(Canvases) : c.id = id

\* C7: for every annotation r with a fragment selector [x, y, w, h], every canvas c
\* and every world point p, annotationsAtPoint(c, p) holds r exactly when r targets
\* c and x <= px - ox <= x + w and y <= py - oy <= y + h, (ox, oy) being the world
\* offset of c; it holds no annotation that targets another canvas.
C7_RectangleContainment ==
    probe.called =>
        LET c == Canvases[probe.canvas]
            px == probe.point.x - c.x
            py == probe.point.y - c.y
        IN  /\ \A r \in Range(AllResources(probe.cfg)) :
                  r.fragmentSelector # <<>> =>
                    ((r \in Range(probe.result)) <=>
                        /\ r.targetId = c.id
                        /\ r.fragmentSelector[1] <= px
                        /\ px <= r.fragmentSelector[1] + r.fragmentSelector[3]
                        /\ r.fragmentSelector[2] <= py
                        /\ py <= r.fragmentSelector[2] + r.fragmentSelector[4])
            /\ \A r \in Range(probe.result) : r.targetId = c.id

\* A point on the right edge and the top edge of a selector, on the canvas whose
\* offset is not zero, is found in the annotation
C7_Witness ==
    /\ probe.called
    /\ probe.canvas = 2
    /\ \E r \in Range(probe.result) :
          /\ probe.point.x - Canvases[2].x = r.fragmentSelector[1] + r.fragmentSelector[3]
          /\ probe.point.y - Canvases[2].y = r.fragmentSelector[2]

Max(a, b) == IF a >= b THEN a ELSE b

Min(a, b) == IF a <= b THEN a ELSE b

Span(lo, hi) == IF hi < lo THEN 0 ELSE hi - lo + 1

\* The number of points of the unit grid within `radius` of p, in x and in y, that
\* lie in the rectangle of resource r on canvas c
LocalityScore(r, c, p, radius) ==
    LET f == r.fragmentSelector
    IN  Span(Max(p.x - radius, c.x + f[1]), Min(p.x + radius, c.x + f[1] + f[3]))
        * Span(Max(p.y - radius, c.y + f[2]), Min(p.y + radius, c.y + f[2] + f[4]))

\* The score of the candidate `id` of the last click
ScoreOf(id, radius) ==
    LocalityScore(ResourceOf(pprops.cfg, id), CanvasOf(ptr.canvas), ptr.point, radius)

LowestScore(radius) ==
    CHOOSE m \in {ScoreOf(id, radius) : id \in Range(ptr.hits)} :
        \A id \in Range(ptr.hits) : m <= ScoreOf(id, radius)

HighestScore(radius) ==
    CHOOSE m \in {ScoreOf(id, radius) : id \in Range(ptr.hits)} :
        \A id \in Range(ptr.hits) : m >= ScoreOf(id, radius)

\* The two lowest (highest) scores of the candidates differ
LowestTwoDiffer(radius) ==
    Cardinality({i \in 1..Len(ptr.hits) : ScoreOf(ptr.hits[i], radius) = LowestScore(radius)}) = 1

HighestTwoDiffer(radius) ==
    Cardinality({i \in 1..Len(ptr.hits) : ScoreOf(ptr.hits[i], radius) = HighestScore(radius)}) = 1

AllTie(radius) == LowestScore(radius) = HighestScore(radius)

ManyHit == ptr.op = "click" /\ Len(ptr.hits) >= 2

\* C8, as amended: when a click hits two or more annotations, the radius escalates
\* 50, 150, 500 until the two lowest locality scores differ (500 is taken as it is),
\* and the annotation toggled is a candidate with the lowest score at that radius.
C8_LowestScoreSelected ==
    ManyHit =>
        LET radius == IF LowestTwoDiffer(Radius1) THEN Radius1
                      ELSE IF LowestTwoDiffer(Radius2) THEN Radius2
                      ELSE Radius3
        IN  /\ ptr.radius = radius
            /\ ptr.choice \in Range(ptr.hits)
            /\ ScoreOf(ptr.choice, radius) = LowestScore(radius)
            /\ Len(ptr.notes) = 1
            /\ ptr.notes[1].id = ptr.choice

\* A click hit three or more annotations that tie at 50 and differ at 150, and the
\* one toggled is not the first of them
C8_Witness ==
    /\ ManyHit
    /\ Len(ptr.hits) >= 3
    /\ ptr.radius = Radius2
    /\ ptr.choice # ptr.hits[1]
    /\ ScoreOf(ptr.choice, Radius2) < ScoreOf(ptr.hits[1], Radius2)

\* C8, as claimed: the radius escalates until the top two scores differ, and the
\* annotation toggled has the highest score.
C8_Original ==
    ManyHit =>
        LET radius == IF HighestTwoDiffer(Radius1) THEN Radius1
                      ELSE IF HighestTwoDiffer(Radius2) THEN Radius2
                      ELSE Radius3
        IN  ScoreOf(ptr.choice, radius) = HighestScore(radius)

\* C9: when the scores of all candidates of a click tie at 50, at 150 and at 500,
\* the annotation toggled is the candidate that comes first in list order.
C9_TieSelectsFirstInListOrder ==
    (ManyHit /\ AllTie(Radius1) /\ AllTie(Radius2) /\ AllTie(Radius3)) =>
        LET all == AllResources(pprops.cfg)
            first == CHOOSE i \in 1..Len(all) :
                        /\ all[i].id \in Range(ptr.hits)
                        /\ \A j \in 1..Len(all) : all[j].id \in Range(ptr.hits) => i <= j
        IN  ptr.choice = all[first].id

\* A click hit three annotations of three lists whose scores tie at every radius
C9_Witness ==
    /\ ManyHit
    /\ Len(ptr.hits) = 3
    /\ AllTie(Radius1) /\ AllTie(Radius2) /\ AllTie(Radius3)
    /\ ptr.radius = Radius3
    /\ ptr.choice = ptr.hits[1]

\* C10, as claimed: of two consecutive pointer moves that hit the same set of
\* annotations, at most one sends a hover notification, wherever the update that
\* delivers the hovered set falls.
C10_Original ==
    ptr.op = "move" => ~ptr.repeated

\* The canvases that hold a world point
CanvasesHolding(p) ==
    {c \in Range(Canvases) : /\ c.x <= p.x /\ p.x <= c.x + c.w
                             /\ c.y <= p.y /\ p.y <= c.y + c.h}

\* The ids of the annotations of the annotation state that target a canvas under
\* the world point p and whose rectangle contains p
ContainingIds(cfg, p) ==
    {r.id : r \in {q \in Range(AllResources(cfg)) :
                    /\ q.fragmentSelector # <<>>
                    /\ \E c \in CanvasesHolding(p) :
                          /\ q.targetId = c.id
                          /\ q.fragmentSelector[1] <= p.x - c.x
                          /\ p.x - c.x <= q.fragmentSelector[1] + q.fragmentSelector[3]
                          /\ q.fragmentSelector[2] <= p.y - c.y
                          /\ p.y - c.y <= q.fragmentSelector[2] + q.fragmentSelector[4]}}

\* C11: a canvas click sends exactly one select or deselect notification when an
\* annotation that targets the canvas under the pointer contains the click point,
\* and none otherwise (a click outside all canvases included); the annotation
\* notified is one of those that contain the point; the viewer's default click
\* action is prevented exactly when there is a hit.
C11_ClickNotifiesOneHit ==
    ptr.op = "click" =>
        LET containing == ContainingIds(pprops.cfg, ptr.point)
        IN  /\ containing # {} =>
                /\ Len(ptr.notes) = 1
                /\ ptr.notes[1].type \in {"select", "deselect"}
                /\ ptr.notes[1].id \in containing
            /\ containing = {} => ptr.notes = <<>>
            /\ ptr.prevented <=> containing # {}

\* A click on an annotation that is selected deselects it, the default action
\* being prevented
C11_Witness ==
    /\ ptr.op = "click"
    /\ ptr.prevented
    /\ Len(ptr.notes) = 1
    /\ ptr.notes[1].type = "deselect"
    /\ ptr.notes[1].id \in ContainingIds(pprops.cfg, ptr.point)

\* C12, as claimed: after a pointer move to a point outside all canvases no
\* annotation is hovered: the hovered set of the application is empty.
C12_Original ==
    (ptr.op = "move" /\ CanvasesHolding(ptr.point) = {}) => app.hovered = <<>>

\* C13: every redraw of the overlay (update-viewport) draws the annotations, the
\* search annotations, the hovered and the selected marks of the props the
\* component holds at that moment, however many changes came since the redraw
\* before it, and leaves no redraw pending.
C13_RedrawDrawsLatestState ==
    overlay.op = "updateViewport" =>
        /\ overlay.drawn.search =
              (IF overlay.props.drawSearchAnnotations THEN overlay.props.searchAnnotations
               ELSE <<>>)
        /\ overlay.drawn.annotations =
              (IF overlay.props.drawAnnotations THEN overlay.props.annotations ELSE <<>>)
        /\ overlay.drawn.hovered = overlay.props.hoveredAnnotationIds
        /\ overlay.drawn.selected = overlay.props.selectedAnnotationId
        /\ ~overlay.forceRedraw

\* One redraw followed two changes, the later of which did not replace
\* updateCanvas, and drew annotations
C13_Witness ==
    /\ overlay.op = "updateViewport"
    /\ overlay.coalesced >= 2
    /\ overlay.updateCanvas.created # <<overlay.props>>
    /\ overlay.drawn.annotations # <<>>
    /\ overlay.drawn.annotations = overlay.props.annotations

Distance(a, b) == IF a >= b THEN a - b ELSE b - a

\* A fixed-point coordinate n is a whole number of world units and no whole
\* number is nearer to c
NearestInteger(n, c) == n % Scale = 0 /\ 2 * Distance(n, c) <= Scale

\* C15: a viewport notification carries the viewer's target centre with x and y
\* each rounded to the nearest whole world unit and the target zoom as it is;
\* sending it, and the update of the component it brings about, leave the viewer's
\* own targets as they were.
C15_NotificationRoundsCentre ==
    [][ /\ last'.notes # <<>> =>
              /\ Len(last'.notes) = 1
              /\ NearestInteger(last'.notes[1].x, vp.x)
              /\ NearestInteger(last'.notes[1].y, vp.y)
              /\ last'.notes[1].zoom = vp.zoom
              /\ vp' = vp
        /\ (pc = "finishing" /\ last'.op = "update") => vp' = vp
      ]_vars

\* A notification was sent for a centre that is not a whole number of world
\* units and was rounded down, the viewer keeping its centre
C15_Witness ==
    /\ last.op = "animationFinish"
    /\ last.notes # <<>>
    /\ vp.x % Scale # 0
    /\ last.notes[1].x < vp.x
    /\ store.x = last.notes[1].x

----------------------------------------------------------------------------
(* Properties of the thumbnail resolution (SpecThumb) *)

\* The thumbnail of a resource whose thumbnail property is an image with a
\* level 1 or level 2 service has been resolved
SizedThumbnailResolved ==
    /\ thumb.called
    /\ thumb.resource.type = "Whatever"
    /\ thumb.resource.thumbnail # None
    /\ thumb.resource.thumbnail[1] \in iiifSizedServices

\* n is a / b rounded to the nearest integer, halves up
IsRound(n, a, b) == (2 * n - 1) * b <= 2 * a /\ 2 * a < (2 * n + 1) * b

\* a / b rounds to less than the minimum size
RoundsBelowFloor(a, b) == 2 * a < (2 * 120 - 1) * b

\* The result r is the request of size at service id, with integer width and height
IsRequest(r, id, size) ==
    /\ r.url = id \o "/full/" \o size \o "/0/default.jpg"
    /\ Len(r.width) = 1
    /\ Len(r.height) = 1

TargetBelowFloor(W, H, w, h) ==
    \/ w # 0 /\ h = 0 /\ w < 120 /\ RoundsBelowFloor(w * H, W)
    \/ w = 0 /\ h # 0 /\ h < 120 /\ RoundsBelowFloor(h * W, H)
    \/ w # 0 /\ h # 0 /\ w * H <= h * W /\ w < 120 /\ RoundsBelowFloor(w * H, W)
    \/ w # 0 /\ h # 0 /\ h * W <= w * H /\ h < 120 /\ RoundsBelowFloor(h * W, H)

\* C17: whenever the width and height computed from the constraints are both
\* below 120, the request is the best fit inside 120 x 120, so the URL depends on
\* the service alone and is the same for all such requests; {maxWidth: 100,
\* maxHeight: 100} on a 1000 x 2000 level 2 service gives !120,120, width 60 and
\* height 120.
C17_SmallRequestsShareOneUrl ==
    SizedThumbnailResolved =>
        LET image == thumb.resource.thumbnail[1]
            W == image.width
            H == image.height
            r == thumb.result
        IN  /\ TargetBelowFloor(W, H, thumb.iiifOpts.maxWidth, thumb.iiifOpts.maxHeight) =>
                  /\ IsRequest(r, image.service[1].id, "!120,120")
                  /\ IF H >= W
                     THEN r.height[1] = 120 /\ IsRound(r.width[1], 120 * W, H)
                     ELSE r.width[1] = 120 /\ IsRound(r.height[1], 120 * H, W)
            /\ (W = 1000 /\ H = 2000 /\ image.service[1].profile = "level2"
                  /\ thumb.iiifOpts = [maxWidth |-> 100, maxHeight |-> 100]) =>
                  r = [url |-> "http://example.com/full/!120,120/0/default.jpg",
                       width |-> <<60>>, height |-> <<120>>]

\* {maxWidth: 100, maxHeight: 100} was resolved on the 1000 x 2000 level 2 service
C17_Witness ==
    /\ SizedThumbnailResolved
    /\ thumb.resource.thumbnail[1] = iiifService("http://example.com", 1000, 2000, "level2")
    /\ thumb.iiifOpts = [maxWidth |-> 100, maxHeight |-> 100]
    /\ thumb.result.url = "http://example.com/full/!120,120/0/default.jpg"

\* The thumbnail of an image with a level 0 service has been resolved: the image
\* is the thumbnail property of the resource, or the resource itself
Level0Resolved ==
    /\ thumb.called
    /\ \/ /\ thumb.resource.type = "Whatever"
          /\ thumb.resource.thumbnail = <<iiifLevel0Service>>
       \/ /\ thumb.resource.type = "Image"
          /\ thumb.resource.thumbnail = None
          /\ thumb.resource.service # None
          /\ thumb.resource.service[1].profile = "level0"

\* The image with the level 0 service
Level0Image ==
    IF thumb.resource.type = "Image" THEN thumb.resource ELSE thumb.resource.thumbnail[1]

\* C18 as stated: for a level 0 image service every constraint is ignored and the
\* URL is the bare id of the service, with no resolved width or height.
C18_Original ==
    Level0Resolved =>
        thumb.result = [url |-> Level0Image.service[1].id, width |-> None, height |-> None]

\* C18: for a level 0 image service every constraint is ignored and the URL is the
\* id of the image resource that has the service, with no resolved width or height.
C18_Level0ReturnsTheImage ==
    Level0Resolved =>
        thumb.result = [url |-> Level0Image.id, width |-> None, height |-> None]

\* A level 0 thumbnail was resolved under a width and a height constraint
C18_Witness ==
    /\ Level0Resolved
    /\ thumb.iiifOpts.maxWidth # 0
    /\ thumb.iiifOpts.maxHeight # 0
    /\ thumb.result.url = "arbitrary-url"

\* The ids of the image services of the resources
ServiceIds ==
    {"http://example.com", "some-url", "https://stacks.example/image/1",
     "https://stacks.example/image/2"}

\* C19: without any constraint a level 1 or level 2 service is requested with the
\* size ",120", as {serviceId}/full/,120/0/default.jpg, be the image the thumbnail
\* of the resource or the first image resource of a canvas; and under no resource
\* and no constraints is the result a request of size full or max.
C19_DefaultSizeIsBounded ==
    thumb.called =>
        /\ (SizedThumbnailResolved /\ thumb.iiifOpts = [maxWidth |-> 0, maxHeight |-> 0]) =>
              thumb.result.url = thumb.resource.thumbnail[1].service[1].id
                                     \o "/full/,120/0/default.jpg"
        /\ (thumb.resource = Canvas1 /\ thumb.iiifOpts = [maxWidth |-> 0, maxHeight |-> 0]) =>
              thumb.result.url = "https://stacks.example/image/1/full/,120/0/default.jpg"
        /\ \A id \in ServiceIds :
              /\ thumb.result.url # id \o "/full/full/0/default.jpg"
              /\ thumb.result.url # id \o "/full/max/0/default.jpg"

\* The thumbnail of a canvas was resolved without constraints from its first
\* image resource
C19_Witness ==
    /\ thumb.called
    /\ thumb.resource = Canvas1
    /\ thumb.iiifOpts = [maxWidth |-> 0, maxHeight |-> 0]
    /\ thumb.result.url = "https://stacks.example/image/1/full/,120/0/default.jpg"
    /\ thumb.result.height = <<120>>

\* The number of resources on the longest chain of thumbnails and members from r
RECURSIVE Depth(_)
Depth(r) ==
    LET below == {Depth(r.thumbnail[i]) : i \in 1..Len(r.thumbnail)}
                     \cup {Depth(r.items[i]) : i \in 1..Len(r.items)}
    IN  1 + (IF below = {} THEN 0 ELSE CHOOSE d \in below : \A e \in below : e <= d)

\* The first member of r that is of type t, as a resource or none
FirstOfType(r, t) ==
    IF \E i \in 1..Len(r.items) : r.items[i].type = t
    THEN <<r.items[CHOOSE i \in 1..Len(r.items) :
                      /\ r.items[i].type = t
                      /\ \A j \in 1..(i - 1) : r.items[j].type # t]>>
    ELSE <<>>

\* The canvas of manifest r whose id is the start of r, or none
CanvasWithStartId(r) ==
    IF \E i \in 1..Len(r.items) : r.items[i].id = r.start
    THEN <<r.items[CHOOSE i \in 1..Len(r.items) : r.items[i].id = r.start]>>
    ELSE <<>>

ImageResolved == thumb.called /\ thumb.resource.type = "Image"

\* C21: for an image resource, a thumbnail property that has a IIIF image service
\* is the source of the thumbnail whether or not the resource has a service of its
\* own; otherwise the resource's own IIIF image service is, also when the resource
\* has a thumbnail property without a service; a thumbnail without a service is
\* returned, with its url, width and height as declared, only when the resource
\* has no service.
C21_ImageSourcePrecedence ==
    ImageResolved =>
        LET r == thumb.resource
            t == r.thumbnail
        IN  /\ (t # <<>> /\ t[1].service # <<>>) =>
                  thumb.result = iiifThumbnailUrl(t[1], thumb.iiifOpts)
            /\ (r.service # <<>> /\ (t = <<>> \/ t[1].service = <<>>)) =>
                  thumb.result = iiifThumbnailUrl(r, thumb.iiifOpts)
            /\ (r.service = <<>> /\ t # <<>> /\ t[1].service = <<>>) =>
                  thumb.result = [url |-> t[1].id,
                                  width |-> IF t[1].width = 0 THEN <<>> ELSE <<t[1].width>>,
                                  height |-> IF t[1].height = 0 THEN <<>> ELSE <<t[1].height>>]
            /\ (t # <<>> /\ thumb.result.url = t[1].id) => r.service = <<>>

\* An image with a level 1 service of its own and a thumbnail without a service
\* was resolved from its own service
C21_Witness ==
    /\ ImageResolved
    /\ thumb.resource.service = Service("some-url", "level1")
    /\ thumb.resource.thumbnail = <<Image("some-url", 50, 70, None, None)>>
    /\ thumb.iiifOpts = [maxWidth |-> 0, maxHeight |-> 0]
    /\ thumb.result.url = "some-url/full/,120/0/default.jpg"

----------------------------------------------------------------------------
(* Properties of the image-source registration under fairness (FairLoad) *)

\* addAllImageSources has started batch g and the batch has an image source
BatchWithSources(g) ==
    /\ Len(batches) >= g
    /\ \/ Len(Worlds[batches[g].world].infoResponses) > 0
       \/ Len(Worlds[batches[g].world].nonTiledImages) > 0

\* The then-callback of batch g has run
PostLoadDone(g) == Len(batches) >= g /\ batches[g].post = "done"

\* C22 as stated: for every batch with at least one image source, the viewer
\* calling back success or error for each add it was given, the post-load actions
\* of the batch eventually run.
C22_Original ==
    \A g \in 1..MaxBatches : BatchWithSources(g) ~> PostLoadDone(g)

----------------------------------------------------------------------------
(* Properties of the viewport synchronisation under fairness (FairSync) *)

\* A step that is neither a gesture of the user nor an update the application
\* initiated: an update hands on the viewport state last notified, the same
\* manifest state and the same annotations
QuietStep ==
    /\ last'.op # "gesture"
    /\ last'.op = "update" =>
          /\ props'.viewer = store
          /\ props'.world = props.world
          /\ \A i \in 1..Len(last'.cmds) : last'.cmds[i] # "forceRedraw"

\* A step that gives the viewer no panTo and no zoomTo and notifies no viewport
SilentStep == ~PanOrZoom(last'.cmds) /\ last'.notes = <<>>

\* The viewer is at rest: it has nothing to animate and no handler is running
AtRest == pc = "idle" /\ ~animating /\ ~needsAnim

----------------------------------------------------------------------------
(* Properties of refreshTileProperties (SpecTiles) *)

\* The position of the item of a source in a world, counted from 0
IndexOfSource(items, source) ==
    (CHOOSE p \in 1..Len(items) : items[p].source = source) - 1

\* C24 as stated: after refreshTileProperties, whatever the order of the items was,
\* every item whose content resource the canvas world knows is at the layer index
\* of the resource and has its layer opacity; the other items keep their opacity;
\* no item is added or removed.
C24_Original ==
    tiles.called =>
        /\ {tiles.after[p].source : p \in 1..Len(tiles.after)}
               = {tiles.before[p].source : p \in 1..Len(tiles.before)}
        /\ Len(tiles.after) = Len(tiles.before)
        /\ \A p \in 1..Len(tiles.after) :
              LET item == tiles.after[p]
              IN  IF item.source \in 1..tiles.known
                  THEN /\ p - 1 = item.source - 1
                       /\ item.opacity = item.source % 2
                  ELSE item.opacity
                           = tiles.before[IndexOfSource(tiles.before, item.source) + 1].opacity

----------------------------------------------------------------------------
(* Properties of the change of image sources (SpecReload) *)

\* The info responses of manifest state a differ from those of b in number or at
\* some position by json @id, or the non-tiled images differ in number or at some
\* position by id
SourcesDiffer(a, b) ==
    \/ Len(a.infoResponses) # Len(b.infoResponses)
    \/ \E i \in 1..Len(a.infoResponses) : a.infoResponses[i].json # b.infoResponses[i].json
    \/ Len(a.nonTiledImages) # Len(b.nonTiledImages)
    \/ \E i \in 1..Len(a.nonTiledImages) : a.nonTiledImages[i] # b.nonTiledImages[i]

\* C25 as stated: componentDidUpdate closes the viewer and adds all image sources
\* again whenever the info responses or the non-tiled images differ from the
\* previous ones at any position or in number, and does not close it when neither
\* differs.
C25_Original ==
    [][last'.op = "update" =>
          (SourcesDiffer(Worlds[props'.world], Worlds[props.world])
              <=> (\E i \in 1..Len(last'.cmds) : last'.cmds[i] = "close"))]_vars

----------------------------------------------------------------------------
(* Properties of the fit to the world after a load (SpecLoad) *)

\* The canvas ids of batch g are not those the component had before the batch
\* (every change of manifest state of SpecLoad starts a batch)
CanvasIdsChanged(g) ==
    /\ g > 1
    /\ Worlds[batches[g].world].canvasIds # Worlds[batches[g - 1].world].canvasIds

\* C26 as stated: the then-callback of a batch fits the viewer to the world only
\* if the application has no viewport state or the canvas ids changed; when a
\* viewport state exists and the canvas ids are unchanged it issues no fitBounds and
\* the viewer keeps its pose.
C26_Original ==
    [][last'.op = "postLoad" =>
          LET g == last'.gen
              fits == \E i \in 1..Len(last'.cmds) : last'.cmds[i] = "fitBounds"
          IN  /\ fits => (~props.viewer.set \/ CanvasIdsChanged(g))
              /\ (props.viewer.set /\ ~CanvasIdsChanged(g)) => vp' = vp]_vars

----------------------------------------------------------------------------
(* Properties of the selection by click (SpecClick) *)

\* C27: a click that resolves to annotation a sends one notification: select
\* when the selectedAnnotationId the component holds is not a, after which the
\* application's selected annotation is a, and deselect when it is a, after which
\* none is selected; and when a is clicked with nothing selected and, the props
\* having reached the component, clicked again, nothing is selected as at the start.
C27_ClickTogglesSelection ==
    [][(ptr'.op = "click" /\ ptr'.notes # <<>>) =>
          LET a == ptr'.choice
              note == ptr'.notes[1]
          IN  /\ Len(ptr'.notes) = 1
              /\ note.id = a
              /\ pprops.selectedAnnotationId # a =>
                    note.type = "select" /\ app'.selected = a
              /\ pprops.selectedAnnotationId = a =>
                    note.type = "deselect" /\ app'.selected = ""
              /\ (/\ ptr.op = "click" /\ ptr.notes # <<>> /\ ptr.choice = a
                  /\ ptr.selectedBefore = "" /\ ptr.notes[1].type = "select"
                  /\ pprops.selectedAnnotationId = app.selected) =>
                    app'.selected = ""]_vars

\* An annotation was clicked with nothing selected and clicked again: the second
\* click sent deselect and nothing is selected
C27_Witness ==
    /\ ptr.op = "click"
    /\ ptr.notes # <<>>
    /\ ptr.notes[1].type = "deselect"
    /\ ptr.selectedBefore = ptr.choice
    /\ app.selected = ""

----------------------------------------------------------------------------
(* Properties of processAnnotations (SpecCalls) *)

\* The entries of a property of the canvas, a single value counting as one entry
EntriesOf(value) == IF value.tag = "array" THEN value.elems ELSE <<value>>

\* The positions of the entries of otherContent that are strings or objects of
\* type sc:AnnotationList, and of the entries of annotations that are pages
ListPositions ==
    {i \in 1..Len(EntriesOf(calls.canvas.otherContent)) :
        LET e == EntriesOf(calls.canvas.otherContent)[i]
        IN  e.tag = "string" \/ (e.tag = "object" /\ e.type = "sc:AnnotationList")}

PagePositions ==
    {i \in 1..Len(EntriesOf(calls.canvas.annotations)) :
        LET e == EntriesOf(calls.canvas.annotations)[i]
        IN  e.tag = "object" /\ e.type = "AnnotationPage"}

\* The number of elements of S that are less than i
Before(S, i) == Cardinality({j \in S : j < i})

\* C28: processAnnotations calls fetchAnnotation once for each entry of
\* otherContent that is a string or an sc:AnnotationList object, with its uri, and
\* for no other entry; for each AnnotationPage of annotations it makes one call:
\* fetchAnnotation with the id of the page when the page has no items property,
\* receiveAnnotation with the id and the page otherwise; every call carries the
\* id of the canvas; the calls are in the order of the entries, those of
\* otherContent before those of annotations.
C28_OneCallPerListAndPage ==
    calls.called =>
        LET lists == EntriesOf(calls.canvas.otherContent)
            pages == EntriesOf(calls.canvas.annotations)
            n == Cardinality(ListPositions)
        IN  /\ Len(calls.log) = n + Cardinality(PagePositions)
            /\ \A k \in 1..Len(calls.log) : calls.log[k].canvasId = calls.canvas.id
            /\ \A i \in ListPositions :
                  calls.log[Before(ListPositions, i) + 1]
                      = [fn |-> "fetchAnnotation", canvasId |-> calls.canvas.id,
                         id |-> lists[i].id, page |-> JsUndefined]
            /\ \A i \in PagePositions :
                  LET call == calls.log[n + Before(PagePositions, i) + 1]
                  IN  /\ call.id = pages[i].id
                      /\ IF pages[i].items = "absent"
                         THEN call.fn = "fetchAnnotation" /\ call.page = JsUndefined
                         ELSE call.fn = "receiveAnnotation" /\ call.page = pages[i]

\* A canvas with an annotation list, an entry of another type, a referenced and an
\* embedded page: one fetch for the list, then one fetch and one receive
C28_Witness ==
    /\ calls.called
    /\ calls.canvas.otherContent
           = JsArray(<<JsObject("sc:Layer", "layer/1", "absent"),
                       JsObject("sc:AnnotationList", "list/3", "absent")>>)
    /\ calls.canvas.annotations
           = JsArray(<<JsObject("AnnotationPage", "page/1", "absent"),
                       JsObject("AnnotationPage", "page/3", "some")>>)
    /\ Len(calls.log) = 3
    /\ calls.log[1].id = "list/3"
    /\ calls.log[3].fn = "receiveAnnotation"

----------------------------------------------------------------------------
(* Properties of windowsReducer (SpecWindows) *)

\* The entry of window v is the same before and after the step
EntryUnchanged(v) ==
    /\ Has(windows.state, v) <=> Has(windows'.state, v)
    /\ Has(windows.state, v) => windows'.state[v] = windows.state[v]

\* C29: an action of a window-scoped type leaves the entry of every window other
\* than the one it names as it was, present or absent, and an action of a type
\* the reducer has no case for leaves the whole state as it was.
C29_OnlyTheNamedWindowChanges ==
    [][/\ windows'.action.type \in WindowScopedTypes =>
             \A v \in WindowIds \ {windows'.action.windowId} : EntryUnchanged(v)
       /\ windows'.action.type \notin ReducerTypes => windows'.state = windows.state]_vars

\* Window w1 was maximized while w2 was open: w1 has changed, w2 is as added
C29_Witness ==
    /\ windows.dispatched = 1
    /\ windows.action.type = "MAXIMIZE_WINDOW"
    /\ windows.action.windowId = "w1"
    /\ Has(windows.state, "w1")
    /\ windows.state["w1"] = [NewWindow("w1") EXCEPT !.maximized = "true"]
    /\ Has(windows.state, "w2")
    /\ windows.state["w2"] = NewWindow("w2")

\* C30: a window becomes a key of the state only by an ADD_WINDOW or an
\* IMPORT_MIRADOR_STATE that carries it, and an action of a window-scoped type
\* that names a window which is not a key leaves the state as it was.
C30_Original ==
    [][/\ \A w \in WindowIds :
             (~Has(windows.state, w) /\ Has(windows'.state, w)) =>
                 /\ windows'.action.type \in {"ADD_WINDOW", "IMPORT_MIRADOR_STATE"}
                 /\ windows'.action.windowId = w
       /\ (/\ windows'.action.type \in WindowScopedTypes
           /\ ~Has(windows.state, windows'.action.windowId))
             => windows'.state = windows.state]_vars

====
